---- MODULE Spec2Model ----
(***************************************************************************)
(* Verification model of the three-dimensional morpheme library (ttm):     *)
(* the dimension types, the Morpheme entity, MorphemeSpace / RootSpace and  *)
(* the concatenative language analyzers.                                    *)
(*                                                                          *)
(* Python strings whose characters matter (form, root, affixes) are         *)
(* sequences of one-character strings; the empty string is <<>>.  Labels    *)
(* whose characters never matter (language, gloss, pattern) are TLA+        *)
(* strings.                                                                 *)
(***************************************************************************)
EXTENDS Integers, Sequences, FiniteSets, TLC

VARIABLES space, spaceLast, anLast, serLast, heap, hLast, width, dist, query, sem, wire

vars == <<space, spaceLast, anLast, serLast, heap, hLast, width, dist, query, sem, wire>>

(***************************************************************************)
(* Bounds                                                                  *)
(***************************************************************************)
MaxSpace == 3
MaxInitList == 1

(***************************************************************************)
(* String helpers (str methods used by the source)                         *)
(***************************************************************************)
RECURSIVE Concat(_)
Concat(ss) == IF ss = <<>> THEN <<>> ELSE Head(ss) \o Concat(Tail(ss))

StartsWith(s, p) == Len(p) <= Len(s) /\ SubSeq(s, 1, Len(p)) = p

EndsWith(s, p) == Len(p) <= Len(s) /\ SubSeq(s, Len(s) - Len(p) + 1, Len(s)) = p

DropLast(s, n) == SubSeq(s, 1, Len(s) - n)

DropFirst(s, n) == SubSeq(s, n + 1, Len(s))

Contains(s, p) == \E i \in 1..(Len(s) - Len(p) + 1) : SubSeq(s, i, i + Len(p) - 1) = p

RECURSIVE Replace(_, _, _)
Replace(s, old, new) ==
    IF Len(s) < Len(old) THEN s
    ELSE IF SubSeq(s, 1, Len(old)) = old
         THEN new \o Replace(DropFirst(s, Len(old)), old, new)
         ELSE <<Head(s)>> \o Replace(Tail(s), old, new)

(***************************************************************************)
(* MorphemeSpace / RootSpace (ttm/core/space.py)                           *)
(*                                                                         *)
(* A member of a space is a reference to a Morpheme instance.  An instance *)
(* is [val, copy]: val is the value the dataclass equality compares, copy  *)
(* tells apart distinct instances of equal value.                          *)
(***************************************************************************)
SpaceRoots == {<<"k">>, <<"q">>}

MorphemeValues ==
    [form : {<<"k">>}, root : SpaceRoots, language : {"ar"},
     x : 0..1, y : {1}, z : {0}]

Instances == [val : MorphemeValues, copy : 1..2]

RECURSIVE SeqsUpTo(_, _)
SeqsUpTo(S, n) ==
    IF n = 0 THEN {<<>>}
    ELSE LET shorter == SeqsUpTo(S, n - 1)
         IN shorter \cup {Append(q, e) : q \in {t \in shorter : Len(t) = n - 1}, e \in S}

\* RootSpace.__init__: morphemes or [] is stored as given, root and language fixed
RootSpace(root, language, morphemes) ==
    [root |-> root, language |-> language, morphemes |-> morphemes]

\* MorphemeSpace.add_morpheme: plain append
MorphemeSpace_add_morpheme(sp, m) ==
    [sp EXCEPT !.morphemes = Append(@, m)]

RootSpace_add_morpheme_unchecked(sp, m) ==
    [raised |-> FALSE, space |-> MorphemeSpace_add_morpheme(sp, m)]

\* RootSpace.add_morpheme: ValueError on a root mismatch, else the base append
RootSpace_add_morpheme(sp, m) ==
    IF m.val.root # sp.root
    THEN [raised |-> TRUE, space |-> sp]
    ELSE [raised |-> FALSE, space |-> MorphemeSpace_add_morpheme(sp, m)]

FirstEqual_identity(ms, m) ==
    IF \E i \in 1..Len(ms) : ms[i] = m
    THEN CHOOSE i \in 1..Len(ms) : ms[i] = m /\ \A j \in 1..(i - 1) : ms[j] # m
    ELSE 0

\* list.remove: index of the first element equal (==) to m, 0 when there is none
FirstEqual(ms, m) ==
    IF \E i \in 1..Len(ms) : ms[i].val = m.val
    THEN CHOOSE i \in 1..Len(ms) :
            ms[i].val = m.val /\ \A j \in 1..(i - 1) : ms[j].val # m.val
    ELSE 0

RemoveAt(ms, i) == SubSeq(ms, 1, i - 1) \o SubSeq(ms, i + 1, Len(ms))

\* MorphemeSpace.remove_morpheme: True and the first equal member removed, or False
MorphemeSpace_remove_morpheme(sp, m) ==
    LET i == FirstEqual(sp.morphemes, m)
    IN IF i = 0
       THEN [result |-> FALSE, space |-> sp]
       ELSE [result |-> TRUE, space |-> [sp EXCEPT !.morphemes = RemoveAt(@, i)]]

len(sp) == Len(sp.morphemes)

\* RootSpace.get_by_derivation_degree: the members whose Width degree is degree
RECURSIVE ByDegreeFrom(_, _, _)
ByDegreeFrom(ms, degree, i) ==
    IF i > Len(ms) THEN <<>>
    ELSE IF ms[i].val.x = degree
         THEN <<ms[i]>> \o ByDegreeFrom(ms, degree, i + 1)
         ELSE ByDegreeFrom(ms, degree, i + 1)

get_by_derivation_degree(sp, degree) == ByDegreeFrom(sp.morphemes, degree, 1)

RECURSIVE TreeFrom_overwrite(_, _, _)
TreeFrom_overwrite(ms, tree, i) ==
    IF i > Len(ms) THEN tree
    ELSE LET degree == ms[i].val.x
         IN TreeFrom_overwrite(ms, (degree :> <<ms[i]>>) @@ tree, i + 1)

\* the loop of get_derivation_tree: a new key gets an empty list, then the
\* member is appended to the list of its degree
RECURSIVE TreeFrom(_, _, _)
TreeFrom(ms, tree, i) ==
    IF i > Len(ms) THEN tree
    ELSE LET degree == ms[i].val.x
             withKey == IF degree \notin DOMAIN tree
                        THEN tree @@ (degree :> <<>>)
                        ELSE tree
         IN TreeFrom(ms, [withKey EXCEPT ![degree] = Append(@, ms[i])], i + 1)

\* RootSpace.get_derivation_tree: dict from degree to the list of members
get_derivation_tree(sp) == TreeFrom(sp.morphemes, <<>>, 1)

NoSpaceOp == [op |-> "none"]

InitSpace ==
    /\ \E root \in SpaceRoots, init \in SeqsUpTo(Instances, MaxInitList) :
          space = RootSpace(root, "ar", init)
    /\ spaceLast = NoSpaceOp
    /\ width = NoSpaceOp
    /\ dist = NoSpaceOp
    /\ query = NoSpaceOp
    /\ anLast = NoSpaceOp
    /\ serLast = NoSpaceOp
    /\ heap = NoSpaceOp
    /\ hLast = NoSpaceOp
    /\ sem = NoSpaceOp
    /\ wire = NoSpaceOp

AddMorpheme ==
    /\ len(space) < MaxSpace
    /\ \E m \in Instances :
          LET r == RootSpace_add_morpheme(space, m)
          IN /\ space' = r.space
             /\ spaceLast' = [op |-> "add", arg |-> m, before |-> space,
                              raised |-> r.raised]
    /\ UNCHANGED <<anLast, serLast, heap, hLast, width, dist, query, sem, wire>>

RemoveMorpheme ==
    \E m \in Instances :
       LET r == MorphemeSpace_remove_morpheme(space, m)
       IN /\ space' = r.space
          /\ spaceLast' = [op |-> "remove", arg |-> m, before |-> space,
                           result |-> r.result]
       /\ UNCHANGED <<anLast, serLast, heap, hLast, width, dist, query, sem, wire>>

\* get_derivation_tree() on the space as it is; the space is only read
GetDerivationTree ==
    /\ spaceLast' = [op |-> "get_derivation_tree", before |-> space,
                     tree |-> get_derivation_tree(space)]
    /\ UNCHANGED <<space, anLast, serLast, heap, hLast, width, dist, query, sem, wire>>

NextSpace == AddMorpheme \/ RemoveMorpheme \/ GetDerivationTree

SpecSpace == InitSpace /\ [][NextSpace]_vars

(***************************************************************************)
(* Dimension types and Morpheme values (ttm/core/dimensions.py,            *)
(* ttm/core/morpheme.py).  Fields no modelled operation reads or writes    *)
(* (syntagmatic_context, possible_derivations, polysemy_type,              *)
(* alternative_vocalizations) are left out.                                *)
(***************************************************************************)
LITERAL == 1
ALLUSIVE == 2
HOMILETIC == 3
MYSTICAL == 4

\* SemanticLevel(v): the enum member of value v.  A level field may also hold
\* a plain int, which has neither .value nor .name.
SemanticLevel(v) == [enum |-> TRUE, value |-> v]

PlainInt(v) == [enum |-> FALSE, value |-> v]

SemanticLayer(level, meaning, tradition, source) ==
    [level |-> level, meaning |-> meaning, tradition |-> tradition, source |-> source]

Diacritic(symbol, name, position, function) ==
    [symbol |-> symbol, name |-> name, position |-> position, function |-> function]

Width(root, prefixes, suffixes, pattern, derivation_degree) ==
    [root |-> root, prefixes |-> prefixes, suffixes |-> suffixes,
     pattern |-> pattern, derivation_degree |-> derivation_degree]

Depth(levels, current_level, semantic_field) ==
    [levels |-> levels, current_level |-> current_level,
     semantic_field |-> semantic_field]

Height(base_form, diacritics, vowels, cantillation, configuration_id) ==
    [base_form |-> base_form, diacritics |-> diacritics, vowels |-> vowels,
     cantillation |-> cantillation, configuration_id |-> configuration_id]

DefaultWidth == Width(<<>>, <<>>, <<>>, "", 0)

DefaultDepth == Depth(<<>>, 1, "")

DefaultHeight == Height(<<>>, <<>>, <<>>, <<>>, 0)

Morpheme(form, root, language, gloss, x, y, z, metadata) ==
    [form |-> form, root |-> root, language |-> language, gloss |-> gloss,
     x |-> x, y |-> y, z |-> z, metadata |-> metadata]

\* Width.position, Depth.level, Height.configuration
position(w) == w.derivation_degree

level(d) == d.current_level

configuration(h) == h.configuration_id

\* Morpheme.coordinates
coordinates(m) == <<position(m.x), level(m.y), configuration(m.z)>>

\* Width.full_form
full_form(w) == Concat(w.prefixes) \o w.root \o Concat(w.suffixes)

\* Width.add_prefix / Width.add_suffix
add_prefix(w, prefix) ==
    [w EXCEPT !.prefixes = Append(@, prefix), !.derivation_degree = @ + 1]

add_suffix_noinc(w, suffix) == [w EXCEPT !.suffixes = Append(@, suffix)]

\* Width.add_suffix
add_suffix(w, suffix) ==
    [w EXCEPT !.suffixes = Append(@, suffix), !.derivation_degree = @ + 1]

\* Depth.add_layer(level, meaning, **kwargs)
add_layer(d, lv, meaning, tradition) ==
    [d EXCEPT !.levels = Append(@, SemanticLayer(lv, meaning, tradition, ""))]

\* Height.add_diacritic
add_diacritic(h, symbol, name, pos, function) ==
    [h EXCEPT !.diacritics = Append(@, Diacritic(symbol, name, pos, function))]

(***************************************************************************)
(* Concatenative analyzers (ttm/analyzers/english.py, portuguese.py,       *)
(* russian.py, sanskrit.py).  Characters outside ASCII are named atoms.    *)
(***************************************************************************)
\* str.find of a single character: 0-based index of the first one, -1 if none
Find(s, c) ==
    IF \E i \in 1..Len(s) : s[i] = c
    THEN (CHOOSE i \in 1..Len(s) : s[i] = c /\ \A j \in 1..(i - 1) : s[j] # c) - 1
    ELSE -1

EndsWithAny(s, ps) == \E p \in ps : EndsWith(s, p)

\* Adds the parsed forms one by one; the ValueError of add_morpheme propagates
RECURSIVE AddAll(_, _, _)
AddAll(sp, ms, n) ==
    IF ms = <<>> THEN [raised |-> FALSE, space |-> sp]
    ELSE LET r == RootSpace_add_morpheme(sp, [val |-> Head(ms), copy |-> n])
         IN IF r.raised THEN [raised |-> TRUE]
            ELSE AddAll(r.space, Tail(ms), n + 1)

English_parse_morpheme_any_s(form) ==
    LET ing == EndsWith(form, <<"i", "n", "g">>)
        ed == EndsWith(form, <<"e", "d">>)
        s == EndsWith(form, <<"s">>)
        root == IF ing THEN DropLast(form, 3)
                ELSE IF ed THEN DropLast(form, 2)
                ELSE IF s THEN DropLast(form, 1)
                ELSE form
        suffixes == IF ing THEN <<"PROG">>
                    ELSE IF ed THEN <<"PAST">>
                    ELSE IF s THEN <<"PLURAL/3SG">>
                    ELSE <<>>
    IN Morpheme(form, root, "en", "", Width(root, <<>>, suffixes, "", 0),
                DefaultDepth, DefaultHeight, <<>>)

\* EnglishAnalyzer.parse_morpheme
English_parse_morpheme(form) ==
    LET ing == EndsWith(form, <<"i", "n", "g">>)
        ed == EndsWith(form, <<"e", "d">>)
        s == EndsWith(form, <<"s">>) /\ ~EndsWith(form, <<"s", "s">>)
        root == IF ing THEN DropLast(form, 3)
                ELSE IF ed THEN DropLast(form, 2)
                ELSE IF s THEN DropLast(form, 1)
                ELSE form
        suffixes == IF ing THEN <<"PROG">>
                    ELSE IF ed THEN <<"PAST">>
                    ELSE IF s THEN <<"PLURAL/3SG">>
                    ELSE <<>>
    IN Morpheme(form, root, "en", "", Width(root, <<>>, suffixes, "", 0),
                DefaultDepth, DefaultHeight, <<>>)

\* EnglishAnalyzer.analyze_root
English_analyze_root(root) ==
    LET plural == IF EndsWithAny(root, {<<"s">>, <<"x">>, <<"z">>, <<"c", "h">>, <<"s", "h">>})
                  THEN root \o <<"e", "s">>
                  ELSE root \o <<"s">>
        prog == IF EndsWith(root, <<"e">>) /\ ~EndsWith(root, <<"e", "e">>)
                THEN DropLast(root, 1) \o <<"i", "n", "g">>
                ELSE root \o <<"i", "n", "g">>
        past == IF EndsWith(root, <<"e">>)
                THEN root \o <<"d">>
                ELSE root \o <<"e", "d">>
        forms == <<root, plural, prog, past>>
    IN AddAll(RootSpace(root, "en", <<>>), [i \in 1..Len(forms) |-> English_parse_morpheme(forms[i])], 1)

\* RussianAnalyzer.parse_morpheme
Russian_parse_morpheme(form) ==
    LET pro == StartsWith(form, <<"p", "r", "o">>)
        perf == pro \/ StartsWith(form, <<"s">>)
        prefixes == IF perf
                    THEN <<IF pro THEN SubSeq(form, 1, 3) ELSE SubSeq(form, 1, 1)>>
                    ELSE <<>>
        root == IF perf THEN DropFirst(form, Len(prefixes[1])) ELSE form
        aspect == IF perf THEN "Aspect: PERFECTIVE" ELSE "Aspect: IMPERFECTIVE"
        stress_pos == Find(form, "ACUTE")
        height == Height(form, <<>>, <<>>, <<>>,
                         IF stress_pos # -1 THEN stress_pos ELSE 0)
        depth == add_layer(DefaultDepth, PlainInt(1), aspect, "")
    IN Morpheme(form, root, "ru", "", Width(root, prefixes, <<>>, "", 0),
                depth, height, <<>>)

\* RussianAnalyzer.analyze_root
Russian_analyze_root(root) ==
    LET forms == IF ~StartsWith(root, <<"p", "r", "o">>)
                 THEN <<root, <<"p", "r", "o">> \o root>>
                 ELSE <<root>>
    IN AddAll(RootSpace(root, "ru", <<>>), [i \in 1..Len(forms) |-> Russian_parse_morpheme(forms[i])], 1)

\* Characters of the accent test of PortugueseAnalyzer._detect_stress
PtAccents ==
    {"A_ACUTE", "E_ACUTE", "I_ACUTE", "O_ACUTE", "U_ACUTE", "Y_ACUTE",
     "A_GRAVE", "E_GRAVE", "I_GRAVE", "O_GRAVE", "U_GRAVE",
     "A_CIRC", "E_CIRC", "I_CIRC", "O_CIRC", "U_CIRC", "A_TILDE", "O_TILDE"}

\* PortugueseAnalyzer._detect_stress
detect_stress(word) ==
    IF \E i \in 1..Len(word) : word[i] \in PtAccents THEN 0
    ELSE IF EndsWithAny(word, {<<"a">>, <<"e">>, <<"o">>, <<"a", "m">>,
                               <<"e", "m">>, <<"n", "s">>}) THEN 2
    ELSE 1

\* PortugueseAnalyzer.parse_morpheme
Portuguese_parse_morpheme(form) ==
    LET plural == EndsWith(form, <<"s">>) /\ ~EndsWith(form, <<"s", "s">>)
        ns == plural /\ EndsWith(form, <<"n", "s">>)
        es == plural /\ ~ns /\ EndsWith(form, <<"e", "s">>) /\ Len(form) > 3
        is == plural /\ ~ns /\ ~es /\ EndsWith(form, <<"i", "s">>) /\ Len(form) > 3
        other == plural /\ ~ns /\ ~es /\ ~is
        root1 == IF ns THEN DropLast(form, 2) \o <<"m">>
                 ELSE IF es THEN DropLast(form, 2)
                 ELSE IF other THEN DropLast(form, 1)
                 ELSE form
        suffixes1 == IF ns \/ es \/ other THEN <<"PLURAL">> ELSE <<>>
        inh == Contains(form, <<"i", "n", "h">>)
        inha == inh /\ EndsWith(form, <<"i", "n", "h", "a">>)
        inho == inh /\ ~inha /\ EndsWith(form, <<"i", "n", "h", "o">>)
        root == IF inha THEN Replace(form, <<"i", "n", "h", "a">>, <<"a">>)
                ELSE IF inho THEN Replace(form, <<"i", "n", "h", "o">>, <<"o">>)
                ELSE root1
        suffixes == IF inha \/ inho THEN Append(suffixes1, "DIMINUTIVE") ELSE suffixes1
    IN Morpheme(form, root, "pt", "", Width(root, <<>>, suffixes, "", 0),
                DefaultDepth, Height(form, <<>>, <<>>, <<>>, detect_stress(form)), <<>>)

\* PortugueseAnalyzer.analyze_root
Portuguese_analyze_root(root) ==
    LET plural == IF EndsWithAny(root, {<<"a">>, <<"e">>, <<"o">>, <<"u">>, <<"i">>})
                  THEN <<root \o <<"s">>>>
                  ELSE IF EndsWith(root, <<"r">>) \/ EndsWith(root, <<"z">>)
                  THEN <<root \o <<"e", "s">>>>
                  ELSE IF EndsWith(root, <<"m">>)
                  THEN <<DropLast(root, 1) \o <<"n", "s">>>>
                  ELSE <<>>
        dimin == IF EndsWith(root, <<"a">>)
                 THEN <<DropLast(root, 1) \o <<"i", "n", "h", "a">>>>
                 ELSE IF EndsWith(root, <<"o">>)
                 THEN <<DropLast(root, 1) \o <<"i", "n", "h", "o">>>>
                 ELSE <<>>
        forms == <<root>> \o plural \o dimin
    IN AddAll(RootSpace(root, "pt", <<>>), [i \in 1..Len(forms) |-> Portuguese_parse_morpheme(forms[i])], 1)

S_gam == <<"g", "a", "m">>

S_gacchati == <<"g", "a", "c", "c", "h", "a", "t", "i">>

S_agaccham == <<"a", "g", "a", "c", "c", "h", "a", "m">>

S_gamisyami == <<"g", "a", "m", "i", "S_DOT", "y", "A_MACRON", "m", "i">>

\* SanskritAnalyzer.parse_morpheme
Sanskrit_parse_morpheme(form) ==
    LET cchati == Contains(form, <<"c", "c", "h", "a", "t", "i">>)
        gaccham == Contains(form, <<"g", "a", "c", "c", "h", "a", "m">>)
        future == /\ ~(cchati \/ gaccham)
                  /\ Contains(form, <<"m", "i">>)
                  /\ (Contains(form, <<"s", "y">>) \/ Contains(form, <<"S_DOT", "y">>))
        root == IF cchati \/ gaccham \/ future THEN S_gam ELSE form
        suffixes == IF cchati THEN <<"PRESENT_3SG">>
                    ELSE IF gaccham THEN <<"IMPERFECT_1SG">>
                    ELSE IF future THEN <<"FUTURE_1SG">>
                    ELSE <<>>
        udatta == \E i \in 1..Len(form) :
                     form[i] \in {"A_ACUTE", "E_ACUTE", "I_ACUTE", "O_ACUTE", "U_ACUTE"}
    IN Morpheme(form, root, "sa", "", Width(root, <<>>, suffixes, "", 0),
                DefaultDepth,
                Height(form, <<>>, <<>>, <<>>, IF udatta THEN 1 ELSE 0), <<>>)

\* SanskritAnalyzer.analyze_root
Sanskrit_analyze_root(root) ==
    LET forms == IF root = S_gam
                 THEN <<root, S_gacchati, S_agaccham, S_gamisyami>>
                 ELSE <<root>>
    IN AddAll(RootSpace(root, "sa", <<>>), [i \in 1..Len(forms) |-> Sanskrit_parse_morpheme(forms[i])], 1)

Languages == {"en", "pt", "ru", "sa"}

analyze_root(lang, root) ==
    CASE lang = "en" -> English_analyze_root(root)
      [] lang = "pt" -> Portuguese_analyze_root(root)
      [] lang = "ru" -> Russian_analyze_root(root)
      [] lang = "sa" -> Sanskrit_analyze_root(root)

parse_morpheme(lang, form) ==
    CASE lang = "en" -> English_parse_morpheme(form)
      [] lang = "pt" -> Portuguese_parse_morpheme(form)
      [] lang = "ru" -> Russian_parse_morpheme(form)
      [] lang = "sa" -> Sanskrit_parse_morpheme(form)

\* Input strings: every string over AnChars of at most AnMaxLen characters,
\* and the words of the test suite.
AnMaxLen == 2

AnChars == {"s", "e", "a", "o", "m", "r", "A_ACUTE", "ACUTE"}

Lexicon ==
    {<<"w", "a", "l", "k">>, <<"p", "l", "a", "y", "i", "n", "g">>,
     <<"b", "a", "k", "e">>, <<"k", "i", "s", "s">>,
     <<"b", "a", "k", "e", "d">>, <<"e", "d">>, <<"i", "n", "g">>,
     <<"k", "i", "s", "s", "e", "s">>,
     <<"c", "a", "s", "a">>, <<"g", "a", "t", "i", "n", "h", "o">>,
     <<"l", "i", "v", "r", "o", "s">>, <<"f", "l", "o", "r">>,
     <<"h", "o", "m", "e", "m">>, <<"p", "a", "p", "e", "i", "s">>,
     <<"c", "h", "i", "t", "a", "t">>, <<"p", "r", "o", "c", "h", "i", "t", "a", "t">>,
     <<"s", "l", "o", "v", "o">>,
     S_gam, S_gacchati, S_agaccham, S_gamisyami}

AnInputs == SeqsUpTo(AnChars, AnMaxLen) \cup Lexicon

InitAn ==
    /\ \E lang \in Languages, word \in AnInputs :
          anLast = [op |-> "input", lang |-> lang, input |-> word]
    /\ space = RootSpace(<<>>, "", <<>>)
    /\ spaceLast = NoSpaceOp
    /\ width = NoSpaceOp
    /\ dist = NoSpaceOp
    /\ query = NoSpaceOp
    /\ serLast = NoSpaceOp
    /\ heap = NoSpaceOp
    /\ hLast = NoSpaceOp
    /\ sem = NoSpaceOp
    /\ wire = NoSpaceOp

AnalyzeRoot ==
    /\ anLast.op = "input"
    /\ anLast' = [op |-> "analyze_root", lang |-> anLast.lang, input |-> anLast.input,
                  out |-> analyze_root(anLast.lang, anLast.input)]
    /\ UNCHANGED <<space, spaceLast, serLast, heap, hLast, width, dist, query, sem, wire>>

ParseMorpheme ==
    /\ anLast.op = "input"
    /\ anLast' = [op |-> "parse_morpheme", lang |-> anLast.lang, input |-> anLast.input,
                  out |-> parse_morpheme(anLast.lang, anLast.input)]
    /\ UNCHANGED <<space, spaceLast, serLast, heap, hLast, width, dist, query, sem, wire>>

NextAn == AnalyzeRoot \/ ParseMorpheme

SpecAn == InitAn /\ [][NextAn]_vars

(***************************************************************************)
(* Root-and-pattern analyzers (ttm/analyzers/arabic.py, hebrew.py).  The   *)
(* two classes differ in their language code, their range of vocalic       *)
(* marks and their data file.  Consonants are written k, t; the marks of   *)
(* ARABIC_DIACRITICS are FATHA and KASRA, those of HEBREW_NIQQUD are        *)
(* QAMATS and SEGOL.  The reference data (json.load of the data file) is a  *)
(* list of entries in file order: key, semantic_field, and the examples as  *)
(* (form, gloss) pairs in file order.                                       *)
(***************************************************************************)
SemLanguages == {"ar", "he"}

\* ARABIC_DIACRITICS / HEBREW_NIQQUD: the characters the pattern matches
Marks(lang) == IF lang = "ar" THEN {"FATHA", "KASRA"} ELSE {"QAMATS", "SEGOL"}

\* str.replace(c, ""): every occurrence of the character c removed
RECURSIVE RemoveChar(_, _)
RemoveChar(s, c) ==
    IF s = <<>> THEN <<>>
    ELSE IF Head(s) = c THEN RemoveChar(Tail(s), c)
         ELSE <<Head(s)>> \o RemoveChar(Tail(s), c)

\* "-".join(s): the characters of s with one hyphen between neighbours
RECURSIVE Join(_)
Join(s) ==
    IF Len(s) <= 1 THEN s
    ELSE <<Head(s), "-">> \o Join(Tail(s))

\* strip_diacritics / strip_niqqud: pattern.sub("", text)
RECURSIVE strip_marks(_, _)
strip_marks(lang, text) ==
    IF text = <<>> THEN <<>>
    ELSE IF Head(text) \in Marks(lang) THEN strip_marks(lang, Tail(text))
         ELSE <<Head(text)>> \o strip_marks(lang, Tail(text))

\* extract_diacritics / extract_niqqud: pattern.findall(text)
RECURSIVE extract_marks(_, _)
extract_marks(lang, text) ==
    IF text = <<>> THEN <<>>
    ELSE IF Head(text) \in Marks(lang)
         THEN <<Head(text)>> \o extract_marks(lang, Tail(text))
         ELSE extract_marks(lang, Tail(text))

\* normalized = root.replace("-", "").replace(" ", "")
normalized_root(root) == RemoveChar(RemoveChar(root, "-"), " ")

\* display_root = "-".join(normalized) if "-" not in root else root
display_root(root) ==
    IF \A i \in 1..Len(root) : root[i] # "-"
    THEN Join(normalized_root(root))
    ELSE root

\* self._roots_data.get(key, {})
roots_data_get(data, key) ==
    IF \E i \in 1..Len(data) : data[i].key = key
    THEN data[CHOOSE i \in 1..Len(data) : data[i].key = key]
    ELSE [key |-> key, semantic_field |-> "", examples |-> <<>>]

example_degree_always0(lang, form_text, normalized) == 0

\* derivation_degree=0 if stripped == normalized else 1
example_degree(lang, form_text, normalized) ==
    IF strip_marks(lang, form_text) = normalized THEN 0 ELSE 1

\* the Morpheme built for one example in the loop of analyze_root
example_morpheme(lang, display, normalized, semantic_field, form_text, gloss, config_id) ==
    Morpheme(form_text, display, lang, gloss,
             Width(display, <<>>, <<>>, "", example_degree(lang, form_text, normalized)),
             add_layer(Depth(<<>>, 1, semantic_field), SemanticLevel(LITERAL), gloss, ""),
             Height(strip_marks(lang, form_text), <<>>, extract_marks(lang, form_text),
                    <<>>, config_id),
             <<>>)

\* the loop of analyze_root over examples.items(): config_id counts from 1,
\* each Morpheme is added with RootSpace.add_morpheme
RECURSIVE ExamplesFrom(_, _, _, _, _, _)
ExamplesFrom(lang, sp, normalized, semantic_field, examples, i) ==
    IF i > Len(examples) THEN [raised |-> FALSE, space |-> sp]
    ELSE LET m == example_morpheme(lang, sp.root, normalized, semantic_field,
                                   examples[i][1], examples[i][2], i)
             r == RootSpace_add_morpheme(sp, [val |-> m, copy |-> i])
         IN IF r.raised THEN [raised |-> TRUE]
            ELSE ExamplesFrom(lang, r.space, normalized, semantic_field, examples, i + 1)

\* ArabicAnalyzer.analyze_root / HebrewAnalyzer.analyze_root
Semitic_analyze_root(lang, data, root) ==
    LET root_info == roots_data_get(data, display_root(root))
    IN ExamplesFrom(lang, RootSpace(display_root(root), lang, <<>>),
                    normalized_root(root), root_info.semantic_field,
                    root_info.examples, 1)

\* ArabicAnalyzer.parse_morpheme / HebrewAnalyzer.parse_morpheme
Semitic_parse_morpheme(lang, form) ==
    Morpheme(form, strip_marks(lang, form), lang, "",
             Width(strip_marks(lang, form), <<>>, <<>>, "", 0),
             DefaultDepth,
             Height(strip_marks(lang, form), <<>>, extract_marks(lang, form), <<>>,
                    Len(extract_marks(lang, form))),
             <<>>)

\* all example forms of the data, roots in file order, examples in file order
RECURSIVE AllExampleForms(_)
AllExampleForms(data) ==
    IF data = <<>> THEN <<>>
    ELSE [i \in 1..Len(Head(data).examples) |-> Head(data).examples[i][1]]
         \o AllExampleForms(Tail(data))

RECURSIVE MatchingForms_unstripped(_, _, _)
MatchingForms_unstripped(lang, forms, stripped) ==
    IF forms = <<>> THEN <<>>
    ELSE IF Head(forms) = stripped
         THEN <<Head(forms)>> \o MatchingForms_unstripped(lang, Tail(forms), stripped)
         ELSE MatchingForms_unstripped(lang, Tail(forms), stripped)

\* the two loops of vocalize: a form is kept when its stripped form is stripped
RECURSIVE MatchingForms(_, _, _)
MatchingForms(lang, forms, stripped) ==
    IF forms = <<>> THEN <<>>
    ELSE IF strip_marks(lang, Head(forms)) = stripped
         THEN <<Head(forms)>> \o MatchingForms(lang, Tail(forms), stripped)
         ELSE MatchingForms(lang, Tail(forms), stripped)

\* ArabicAnalyzer.vocalize / HebrewAnalyzer.vocalize
vocalize(lang, data, form) ==
    MatchingForms(lang, AllExampleForms(data), strip_marks(lang, form))

\* Reference data: none (no data file found: _roots_data stays {}), or two
\* roots keyed by their canonical hyphenated form.
SemData(lang) ==
    LET a == IF lang = "ar" THEN "FATHA" ELSE "QAMATS"
        i == IF lang = "ar" THEN "KASRA" ELSE "SEGOL"
    IN {<<>>,
        <<[key |-> <<"k", "-", "t">>, semantic_field |-> "writing",
           examples |-> <<<<<<"k", a, "t", i>>, "he wrote">>,
                          <<<<"k", i, "t", "t">>, "book">>,
                          <<<<"k", "t">>, "write">>>>],
          [key |-> <<"t", "-", "k">>, semantic_field |-> "rule",
           examples |-> <<<<<<"t", i, "k">>, "king">>,
                          <<<<"k", i, "t">>, "he ruled">>>>]>>}

\* Input strings: every string of at most SemMaxLen characters over two
\* consonants, the two separators and one mark of each language.
SemMaxLen == 4

SemChars == {"k", "t", "-", " ", "FATHA", "SEGOL"}

SemInputs == SeqsUpTo(SemChars, SemMaxLen)

InitSem ==
    /\ \E lang \in SemLanguages, word \in SemInputs :
          \E data \in SemData(lang) :
             sem = [op |-> "input", lang |-> lang, data |-> data, input |-> word]
    /\ space = RootSpace(<<>>, "", <<>>)
    /\ spaceLast = NoSpaceOp
    /\ anLast = NoSpaceOp
    /\ serLast = NoSpaceOp
    /\ heap = NoSpaceOp
    /\ hLast = NoSpaceOp
    /\ width = NoSpaceOp
    /\ dist = NoSpaceOp
    /\ query = NoSpaceOp
    /\ wire = NoSpaceOp

SemAnalyzeRoot ==
    /\ sem.op = "input"
    /\ sem' = [sem EXCEPT !.op = "analyze_root"] @@
              [out |-> Semitic_analyze_root(sem.lang, sem.data, sem.input)]
    /\ UNCHANGED <<space, spaceLast, anLast, serLast, heap, hLast, width, dist, query, wire>>

SemVocalize ==
    /\ sem.op = "input"
    /\ sem' = [sem EXCEPT !.op = "vocalize"] @@
              [out |-> vocalize(sem.lang, sem.data, sem.input)]
    /\ UNCHANGED <<space, spaceLast, anLast, serLast, heap, hLast, width, dist, query, wire>>

NextSem == SemAnalyzeRoot \/ SemVocalize

SpecSem == InitSem /\ [][NextSem]_vars

(***************************************************************************)
(* Object heap: Morpheme, Width, Depth, Height and list objects with       *)
(* identity, for the operations whose effect depends on which objects are  *)
(* shared (Morpheme.translate_along_*, the mutators of the dimensions).    *)
(*                                                                         *)
(* heap.M, heap.W, heap.D, heap.H and heap.L hold the objects of each      *)
(* kind; an object's id is its index.  A field that refers to an object    *)
(* holds its id.  heap.origin records, for every Morpheme, the call that   *)
(* made it; heap.steps counts the calls made.                              *)
(***************************************************************************)
MaxHeapSteps == 2

EmptyHeap ==
    [M |-> <<>>, W |-> <<>>, D |-> <<>>, H |-> <<>>, L |-> <<>>,
     origin |-> <<>>, steps |-> 0]

\* The values the objects stand for
DerefW(h, wid) ==
    Width(h.W[wid].root, h.L[h.W[wid].prefixes], h.L[h.W[wid].suffixes],
          h.W[wid].pattern, h.W[wid].derivation_degree)

DerefD(h, did) ==
    Depth(h.L[h.D[did].levels], h.D[did].current_level, h.D[did].semantic_field)

DerefH(h, hid) ==
    Height(h.H[hid].base_form, h.L[h.H[hid].diacritics], h.L[h.H[hid].vowels],
           h.L[h.H[hid].cantillation], h.H[hid].configuration_id)

DerefM(h, mid) ==
    Morpheme(h.M[mid].form, h.M[mid].root, h.M[mid].language, h.M[mid].gloss,
             DerefW(h, h.M[mid].x), DerefD(h, h.M[mid].y), DerefH(h, h.M[mid].z),
             h.L[h.M[mid].metadata])

DerefAll(h) == [mid \in 1..Len(h.M) |-> DerefM(h, mid)]

\* A new list object (a list display, default_factory=list, default_factory=dict)
NewList(h, content) ==
    [heap |-> [h EXCEPT !.L = Append(@, content)], id |-> Len(h.L) + 1]

CopyList_alias(h, lid) == [heap |-> h, id |-> lid]

\* list.copy(): a new list object with the same elements
CopyList(h, lid) == NewList(h, h.L[lid])

\* Morpheme(...): a new Morpheme object with the given dimension objects and
\* a new empty metadata dict
NewMorpheme(h, form, root, language, gloss, x, y, z, origin) ==
    LET md == NewList(h, <<>>)
    IN [heap |-> [md.heap EXCEPT
                     !.M = Append(@, Morpheme(form, root, language, gloss, x, y, z, md.id)),
                     !.origin = Append(@, origin)],
        id |-> Len(h.M) + 1]

\* A Morpheme built from new dimension objects that hold the value v
AllocMorpheme(h, v) ==
    LET l1 == NewList(h, v.x.prefixes)
        l2 == NewList(l1.heap, v.x.suffixes)
        l3 == NewList(l2.heap, v.y.levels)
        l4 == NewList(l3.heap, v.z.diacritics)
        l5 == NewList(l4.heap, v.z.vowels)
        l6 == NewList(l5.heap, v.z.cantillation)
        h1 == [l6.heap EXCEPT
                  !.W = Append(@, Width(v.x.root, l1.id, l2.id, v.x.pattern,
                                        v.x.derivation_degree)),
                  !.D = Append(@, Depth(l3.id, v.y.current_level, v.y.semantic_field)),
                  !.H = Append(@, Height(v.z.base_form, l4.id, l5.id, l6.id,
                                         v.z.configuration_id))]
    IN NewMorpheme(h1, v.form, v.root, v.language, v.gloss,
                   Len(h.W) + 1, Len(h.D) + 1, Len(h.H) + 1, [op |-> "init"])

H_add_prefix_noinc(h, wid, prefix) ==
    [h EXCEPT !.L[h.W[wid].prefixes] = Append(@, prefix)]

\* Width.add_prefix on the Width object wid
H_add_prefix(h, wid, prefix) ==
    [h EXCEPT !.L[h.W[wid].prefixes] = Append(@, prefix),
              !.W[wid].derivation_degree = @ + 1]

\* Width.add_suffix on the Width object wid
H_add_suffix(h, wid, suffix) ==
    [h EXCEPT !.L[h.W[wid].suffixes] = Append(@, suffix),
              !.W[wid].derivation_degree = @ + 1]

\* Depth.add_layer on the Depth object did
H_add_layer(h, did, lv, meaning) ==
    [h EXCEPT !.L[h.D[did].levels] = Append(@, SemanticLayer(lv, meaning, "", ""))]

\* Height.add_diacritic on the Height object hid
H_add_diacritic(h, hid, symbol, name) ==
    [h EXCEPT !.L[h.H[hid].diacritics] =
                  Append(@, Diacritic(symbol, name, "above", "vowel"))]

\* z.vowels.append(v) on the Height object hid
H_append_vowel(h, hid, v) ==
    [h EXCEPT !.L[h.H[hid].vowels] = Append(@, v)]

\* The Width(...) call of translate_along_x
translate_x_width(self, w, prefixes, suffixes) ==
    Width(IF w.root # <<>> THEN w.root ELSE self.root, prefixes, suffixes,
          w.pattern, w.derivation_degree)

\* The Depth(...) call of translate_along_x
translate_x_depth(d, levels) == Depth(levels, d.current_level, d.semantic_field)

\* The Height(...) call of translate_along_x; cantillation is not passed
translate_x_height(z, diacritics, vowels, cantillation) ==
    Height(z.base_form, diacritics, vowels, cantillation, z.configuration_id)

\* Morpheme.translate_along_x
H_translate_along_x(h, mid, prefix, suffix) ==
    LET self == h.M[mid]
        c1 == CopyList(h, h.W[self.x].prefixes)
        c2 == CopyList(c1.heap, h.W[self.x].suffixes)
        wid == Len(h.W) + 1
        h1 == [c2.heap EXCEPT !.W = Append(@, translate_x_width(self, h.W[self.x],
                                                                c1.id, c2.id))]
        h2 == IF prefix # <<>> THEN H_add_prefix(h1, wid, prefix) ELSE h1
        h3 == IF suffix # <<>> THEN H_add_suffix(h2, wid, suffix) ELSE h2
        c3 == CopyList(h3, h.D[self.y].levels)
        c4 == CopyList(c3.heap, h.H[self.z].diacritics)
        c5 == CopyList(c4.heap, h.H[self.z].vowels)
        c6 == NewList(c5.heap, <<>>)
        h4 == [c6.heap EXCEPT
                  !.D = Append(@, translate_x_depth(h.D[self.y], c3.id)),
                  !.H = Append(@, translate_x_height(h.H[self.z], c4.id, c5.id, c6.id))]
    IN NewMorpheme(h4, full_form(DerefW(h3, wid)), self.root, self.language,
                   self.gloss, wid, Len(h.D) + 1, Len(h.H) + 1,
                   [op |-> "translate_along_x", of |-> mid])

translate_y_depth_samelevel(d, levels, lv) ==
    Depth(levels, d.current_level, d.semantic_field)

\* The Depth(...) call of translate_along_y
translate_y_depth(d, levels, lv) == Depth(levels, lv.value, d.semantic_field)

\* Morpheme.translate_along_y: x and z are the receiver's own objects
H_translate_along_y(h, mid, lv) ==
    LET self == h.M[mid]
        c1 == CopyList(h, h.D[self.y].levels)
        h1 == [c1.heap EXCEPT !.D = Append(@, translate_y_depth(h.D[self.y], c1.id, lv))]
    IN NewMorpheme(h1, self.form, self.root, self.language, self.gloss,
                   self.x, Len(h.D) + 1, self.z,
                   [op |-> "translate_along_y", of |-> mid])

translate_z_height_keepbase(self, z, diacritics, vowels, cantillation, config_id) ==
    Height(z.base_form, diacritics, vowels, cantillation, config_id)

\* The Height(...) call of translate_along_z
translate_z_height(self, z, diacritics, vowels, cantillation, config_id) ==
    Height(IF z.base_form # <<>> THEN z.base_form ELSE self.form,
           diacritics, vowels, cantillation, config_id)

\* Morpheme.translate_along_z: x and y are the receiver's own objects
H_translate_along_z(h, mid, vocalization, config_id) ==
    LET self == h.M[mid]
        c1 == NewList(h, <<>>)
        c2 == NewList(c1.heap, <<>>)
        c3 == NewList(c2.heap, <<>>)
        h1 == [c3.heap EXCEPT
                  !.H = Append(@, translate_z_height(self, h.H[self.z], c1.id, c2.id,
                                                     c3.id, config_id))]
    IN NewMorpheme(h1, vocalization, self.root, self.language, self.gloss,
                   self.x, self.y, Len(h.H) + 1,
                   [op |-> "translate_along_z", of |-> mid])

\* Morphemes the heap starts from
HeapLayer == SemanticLayer(SemanticLevel(LITERAL), "m", "", "")

HeapDiacritic == Diacritic("u", "damma", "above", "vowel")

HeapInitMorphemes ==
    {Morpheme(<<"f">>, <<"k">>, "ar", "g",
              Width(r, <<<<"p">>>>, <<>>, "pat", dg),
              Depth(<<HeapLayer>>, ALLUSIVE, "field"),
              Height(bf, <<HeapDiacritic>>, <<"a">>, cs, 1),
              <<>>) :
        r \in {<<>>, <<"k">>}, dg \in 0..1, bf \in {<<>>, <<"k">>},
        cs \in {<<>>, <<"c">>}}

Mids == 1..Len(heap.M)

Step(h) == [h EXCEPT !.steps = @ + 1]

InitHeap ==
    /\ \E v \in HeapInitMorphemes : heap = AllocMorpheme(EmptyHeap, v).heap
    /\ hLast = [op |-> "none"]
    /\ space = RootSpace(<<>>, "", <<>>)
    /\ spaceLast = NoSpaceOp
    /\ width = NoSpaceOp
    /\ dist = NoSpaceOp
    /\ query = NoSpaceOp
    /\ anLast = NoSpaceOp
    /\ serLast = NoSpaceOp
    /\ sem = NoSpaceOp
    /\ wire = NoSpaceOp

TranslateX ==
    /\ heap.steps < MaxHeapSteps
    /\ \E mid \in Mids, prefix \in {<<>>, <<"a">>}, suffix \in {<<>>, <<"b">>} :
          LET r == H_translate_along_x(heap, mid, prefix, suffix)
          IN /\ heap' = Step(r.heap)
             /\ hLast' = [op |-> "translate_along_x", recv |-> mid, prefix |-> prefix,
                          suffix |-> suffix, res |-> r.id, before |-> DerefAll(heap)]
    /\ UNCHANGED <<space, spaceLast, anLast, serLast, width, dist, query, sem, wire>>

TranslateY ==
    /\ heap.steps < MaxHeapSteps
    /\ \E mid \in Mids, lv \in {LITERAL, MYSTICAL} :
          LET r == H_translate_along_y(heap, mid, SemanticLevel(lv))
          IN /\ heap' = Step(r.heap)
             /\ hLast' = [op |-> "translate_along_y", recv |-> mid, level |-> lv,
                          res |-> r.id, before |-> DerefAll(heap)]
    /\ UNCHANGED <<space, spaceLast, anLast, serLast, width, dist, query, sem, wire>>

TranslateZ ==
    /\ heap.steps < MaxHeapSteps
    /\ \E mid \in Mids, config_id \in {0, 5} :
          LET r == H_translate_along_z(heap, mid, <<"v">>, config_id)
          IN /\ heap' = Step(r.heap)
             /\ hLast' = [op |-> "translate_along_z", recv |-> mid,
                          vocalization |-> <<"v">>, config_id |-> config_id,
                          res |-> r.id, before |-> DerefAll(heap)]
    /\ UNCHANGED <<space, spaceLast, anLast, serLast, width, dist, query, sem, wire>>

\* m.x.add_prefix(p), m.x.add_suffix(s), m.y.add_layer(...), m.z.add_diacritic(...)
\* and m.z.vowels.append(v) on a Morpheme m of the heap
Mutate ==
    /\ heap.steps < MaxHeapSteps
    /\ \E mid \in Mids, what \in {"add_prefix", "add_suffix", "add_layer",
                                  "add_diacritic", "append_vowel"} :
          /\ heap' = Step(
                CASE what = "add_prefix" -> H_add_prefix(heap, heap.M[mid].x, <<"a">>)
                  [] what = "add_suffix" -> H_add_suffix(heap, heap.M[mid].x, <<"b">>)
                  [] what = "add_layer" ->
                        H_add_layer(heap, heap.M[mid].y, SemanticLevel(MYSTICAL), "n")
                  [] what = "add_diacritic" ->
                        H_add_diacritic(heap, heap.M[mid].z, "i", "kasra")
                  [] what = "append_vowel" -> H_append_vowel(heap, heap.M[mid].z, "i"))
          /\ hLast' = [op |-> what, recv |-> mid, before |-> DerefAll(heap)]
    /\ UNCHANGED <<space, spaceLast, anLast, serLast, width, dist, query, sem, wire>>

\* m.metadata[k] = v on a Morpheme m of the heap (metadata is an open dict)
SetMetadata ==
    /\ heap.steps < MaxHeapSteps
    /\ \E mid \in Mids :
          /\ heap' = Step([heap EXCEPT !.L[heap.M[mid].metadata] =
                                          ("source" :> "corpus") @@ @])
          /\ hLast' = [op |-> "set_metadata", recv |-> mid, before |-> DerefAll(heap)]
    /\ UNCHANGED <<space, spaceLast, anLast, serLast, width, dist, query, sem, wire>>

NextHeap == TranslateX \/ TranslateY \/ TranslateZ \/ Mutate \/ SetMetadata

SpecHeap == InitHeap /\ [][NextHeap]_vars

(***************************************************************************)
(* Floating-point values.  A non-negative double is <<e, hi, lo>>: the     *)
(* value (hi * 2^26 + lo) * 2^(e - 52) with a 53-bit significand           *)
(* 2^52 <= hi * 2^26 + lo < 2^53; zero is FZero.  On these triples the     *)
(* order of the values is the lexicographic order.                         *)
(***************************************************************************)
Two26 == 67108864

FZero == <<-2000, 0, 0>>

FOne == <<0, Two26, 0>>

\* math.sqrt(n) for n = 1 .. 120: the correctly rounded double
SqrtTable ==
   <<
      <<0, 67108864, 0>>, <<0, 94906265, 41892813>>, <<0, 116235962, 5786794>>,
      <<1, 67108864, 0>>, <<1, 75029990, 60290216>>, <<1, 82191237, 598318>>,
      <<1, 88776682, 30603498>>, <<1, 94906265, 41892813>>, <<1, 100663296, 0>>,
      <<1, 106108430, 47864659>>, <<1, 111287460, 66940724>>, <<1, 116235962, 5786794>>,
      <<1, 120982225, 6380019>>, <<1, 125549188, 23609161>>, <<1, 129955756, 21974746>>,
      <<2, 67108864, 0>>, <<2, 69174233, 45083911>>, <<2, 71179699, 14642393>>,
      <<2, 73130189, 6573561>>, <<2, 75029990, 60290216>>, <<2, 76882862, 18161285>>,
      <<2, 78692118, 22304423>>, <<2, 80460701, 24577046>>, <<2, 82191237, 598318>>,
      <<2, 83886080, 0>>, <<2, 85547351, 51523574>>, <<2, 87176971, 37894528>>,
      <<2, 88776682, 30603498>>, <<2, 90348073, 11065843>>, <<2, 91892596, 37135759>>,
      <<2, 93411585, 23642563>>, <<2, 94906265, 41892813>>, <<2, 96377768, 23253232>>,
      <<2, 97827139, 28550050>>, <<2, 99255348, 26460717>>, <<2, 100663296, 0>>,
      <<2, 102051820, 56876089>>, <<2, 103421705, 16189017>>, <<2, 104773680, 22729610>>,
      <<2, 106108430, 47864659>>, <<2, 107426598, 27262720>>, <<2, 108728786, 36049508>>,
      <<2, 110015562, 35496288>>, <<2, 111287460, 66940724>>, <<2, 112544986, 23326460>>,
      <<2, 113788615, 7393315>>, <<2, 115018798, 3511270>>, <<2, 116235962, 5786794>>,
      <<2, 117440512, 0>>, <<2, 118632832, 2034368>>, <<2, 119813287, 19743694>>,
      <<2, 120982225, 6380019>>, <<2, 122139976, 7797737>>, <<2, 123286855, 34451910>>,
      <<2, 124423163, 61530584>>, <<2, 125549188, 23609161>>, <<2, 126665203, 5689180>>,
      <<2, 127771470, 27116656>>, <<2, 128868241, 22781659>>, <<2, 129955756, 21974746>>,
      <<2, 131034245, 55473256>>, <<2, 132103930, 59592466>>, <<2, 133165023, 45905247>>,
      <<3, 67108864, 0>>, <<3, 67631119, 56736464>>, <<3, 68149373, 37140492>>,
      <<3, 68663715, 49992843>>, <<3, 69174233, 45083911>>, <<3, 69681011, 26136585>>,
      <<3, 70184129, 61648859>>, <<3, 70683667, 26606342>>, <<3, 71179699, 14642393>>,
      <<3, 71672298, 11408547>>, <<3, 72161534, 37159246>>, <<3, 72647476, 20393963>>,
      <<3, 73130189, 6573561>>, <<3, 73609736, 30856163>>, <<3, 74086179, 57536772>>,
      <<3, 74559578, 53327984>>, <<3, 75029990, 60290216>>, <<3, 75497472, 0>>,
      <<3, 75962076, 14284836>>, <<3, 76423856, 367656>>, <<3, 76882862, 18161285>>,
      <<3, 77339144, 26226330>>, <<3, 77792750, 20150324>>, <<3, 78243726, 36492006>>,
      <<3, 78692118, 22304423>>, <<3, 79137969, 40011585>>, <<3, 79581323, 2344062>>,
      <<3, 80022220, 11086251>>, <<3, 80460701, 24577046>>, <<3, 80896805, 61932864>>,
      <<3, 81330572, 4477702>>, <<3, 81762037, 1021345>>, <<3, 82191237, 598318>>,
      <<3, 82618207, 23287394>>, <<3, 83042982, 28267603>>, <<3, 83465595, 50205543>>,
      <<3, 83886080, 0>>, <<3, 84304467, 2304496>>, <<3, 84720787, 61873274>>,
      <<3, 85135072, 65368403>>, <<3, 85547351, 51523574>>, <<3, 85957653, 11471241>>,
      <<3, 86366005, 24543368>>, <<3, 86772435, 58460808>>, <<3, 87176971, 37894528>>,
      <<3, 87579638, 47184183>>, <<3, 87980462, 63237299>>, <<3, 88379469, 23918304>>,
      <<3, 88776682, 30603498>>, <<3, 89172126, 13815862>>, <<3, 89565824, 2792794>>,
      <<3, 89957798, 59464920>>, <<3, 90348073, 11065843>>, <<3, 90736668, 55116663>>,
      <<3, 91123607, 22194650>>, <<3, 91508909, 47951301>>, <<3, 91892596, 37135759>> >>

math_sqrt_squared(n) == IF n = 0 THEN FZero ELSE SqrtTable[IF n * n <= 120 THEN n * n ELSE 120]

\* math.sqrt of a non-negative integer
math_sqrt(n) == IF n = 0 THEN FZero ELSE SqrtTable[n]

\* a <= b on doubles
FLe(a, b) ==
    \/ a[1] < b[1]
    \/ a[1] = b[1] /\ a[2] < b[2]
    \/ a[1] = b[1] /\ a[2] = b[2] /\ a[3] <= b[3]

\* a < b on doubles
FLt(a, b) == FLe(a, b) /\ a # b

\* hi * 2^26 + lo shifted right by s bits; a lost non-zero bit is kept in the
\* lowest bit of the result (sticky bit)
ShiftRightSticky(H, L, s) ==
    LET r == IF s = 0 THEN <<H, L, FALSE>>
             ELSE IF s <= 26
                  THEN <<H \div 2^s, (H % 2^s) * 2^(26 - s) + (L \div 2^s),
                         L % 2^s # 0>>
             ELSE IF s <= 56
                  THEN <<0, H \div 2^(s - 26), (H % 2^(s - 26) # 0) \/ (L # 0)>>
             ELSE <<0, 0, TRUE>>
    IN <<r[1], IF r[3] /\ r[2] % 2 = 0 THEN r[2] + 1 ELSE r[2]>>

\* The double nearest to hi * 2^26 + lo scaled by 2^(e - 52 - k), where k low
\* bits are dropped, ties to even
RoundDrop(H, L, k, e) ==
    LET r == L % 2^k
        qH == H \div 2^k
        qL == (H % 2^k) * 2^(26 - k) + (L \div 2^k)
        up == r > 2^(k - 1) \/ (r = 2^(k - 1) /\ qL % 2 = 1)
        L1 == IF up THEN qL + 1 ELSE qL
        H1 == IF L1 = Two26 THEN qH + 1 ELSE qH
        L2 == IF L1 = Two26 THEN 0 ELSE L1
    IN IF H1 = 2 * Two26 THEN <<e + 1, Two26, 0>> ELSE <<e, H1, L2>>

\* a + b on doubles (round to nearest, ties to even), computed with three
\* extra low bits
FAdd(a, b) ==
    IF a = FZero THEN b
    ELSE IF b = FZero THEN a
    ELSE LET x == IF FLe(b, a) THEN a ELSE b
             y == IF FLe(b, a) THEN b ELSE a
             xL == (x[3] * 8) % Two26
             xH == x[2] * 8 + (x[3] * 8) \div Two26
             ys == ShiftRightSticky(y[2] * 8 + (y[3] * 8) \div Two26,
                                    (y[3] * 8) % Two26, x[1] - y[1])
             L == (xL + ys[2]) % Two26
             H == xH + ys[1] + (xL + ys[2]) \div Two26
         IN IF H >= 16 * Two26
            THEN RoundDrop(H, L, 4, x[1] + 1)
            ELSE RoundDrop(H, L, 3, x[1])

\* The least double greater than a
FNext(a) ==
    IF a[3] + 1 < Two26 THEN <<a[1], a[2], a[3] + 1>>
    ELSE IF a[2] + 1 < 2 * Two26 THEN <<a[1], a[2] + 1, 0>>
    ELSE <<a[1] + 1, Two26, 0>>

distance_to_xy(a, b) ==
    LET c1 == coordinates(a)
        c2 == coordinates(b)
    IN math_sqrt((c1[1] - c2[1]) * (c1[1] - c2[1])
                 + (c1[2] - c2[2]) * (c1[2] - c2[2]))

\* Morpheme.distance_to
distance_to(a, b) ==
    LET c1 == coordinates(a)
        c2 == coordinates(b)
    IN math_sqrt((c1[1] - c2[1]) * (c1[1] - c2[1])
                 + (c1[2] - c2[2]) * (c1[2] - c2[2])
                 + (c1[3] - c2[3]) * (c1[3] - c2[3]))

(***************************************************************************)
(* Morpheme.distance_to on pairs and triples of Morphemes                  *)
(***************************************************************************)
MaxCoord == 4

\* The tolerance 1e-10 of the tests, as a double
Eps == <<-34, 115292150, 30916027>>

\* A Morpheme with the given identity fields at coordinates c
MorphemeAt(form, root, language, c) ==
    Morpheme(form, root, language, "",
             Width(<<>>, <<>>, <<>>, "", c[1]),
             Depth(<<>>, c[2], ""),
             Height(<<>>, <<>>, <<>>, <<>>, c[3]),
             <<>>)

\* Coordinates: the level-1 plane and, at every level, the diagonal x = z
DistPoints ==
    {c \in (0..MaxCoord) \X (LITERAL..MYSTICAL) \X (0..MaxCoord) :
        c[2] = LITERAL \/ c[1] = c[3]}

DistTripleMorphemes == {MorphemeAt(<<"f">>, <<"k">>, "ar", c) : c \in DistPoints}

DistPairMorphemes ==
    {MorphemeAt(f, <<"k">>, l, c) :
        f \in {<<"f">>, <<"g">>}, l \in {"ar", "he"},
        c \in (0..1) \X (LITERAL..ALLUSIVE) \X (0..1)}

InitDist ==
    /\ \/ \E a, b \in DistPairMorphemes : dist = [op |-> "pair", a |-> a, b |-> b]
       \/ \E a, b, c \in DistTripleMorphemes :
             dist = [op |-> "triple", a |-> a, b |-> b, c |-> c]
    /\ space = RootSpace(<<>>, "", <<>>)
    /\ spaceLast = NoSpaceOp
    /\ anLast = NoSpaceOp
    /\ serLast = NoSpaceOp
    /\ heap = NoSpaceOp
    /\ hLast = NoSpaceOp
    /\ width = NoSpaceOp
    /\ query = NoSpaceOp
    /\ sem = NoSpaceOp
    /\ wire = NoSpaceOp

\* a.distance_to(b), b.distance_to(a), a.distance_to(a)
DistancePair ==
    /\ dist.op = "pair"
    /\ dist' = [op |-> "distances", a |-> dist.a, b |-> dist.b,
                ab |-> distance_to(dist.a, dist.b),
                ba |-> distance_to(dist.b, dist.a),
                aa |-> distance_to(dist.a, dist.a)]
    /\ UNCHANGED <<space, spaceLast, anLast, serLast, heap, hLast, width, query, sem, wire>>

\* d_ab, d_bc, d_ac of test_distance_triangle_inequality
DistanceTriple ==
    /\ dist.op = "triple"
    /\ dist' = [op |-> "triangle", a |-> dist.a, b |-> dist.b, c |-> dist.c,
                ab |-> distance_to(dist.a, dist.b),
                bc |-> distance_to(dist.b, dist.c),
                ac |-> distance_to(dist.a, dist.c)]
    /\ UNCHANGED <<space, spaceLast, anLast, serLast, heap, hLast, width, query, sem, wire>>

NextDist == DistancePair \/ DistanceTriple

SpecDist == InitDist /\ [][NextDist]_vars

(***************************************************************************)
(* A Width under a sequence of add_prefix and add_suffix calls             *)
(***************************************************************************)
MaxWidthCalls == 3

WidthAffixes == {<<>>, <<"a">>, <<"b", "c">>}

\* Width(root=..., prefixes=..., derivation_degree=d0): the degree is freely
\* settable at construction
InitWidths ==
    {Width(r, ps, <<>>, "", d0) :
        r \in {<<>>, <<"k", "t">>}, ps \in {<<>>, <<<<"p">>>>}, d0 \in {-1, 0, 2}}

InitWidth ==
    /\ \E w \in InitWidths : width = [w |-> w, init |-> w, calls |-> <<>>]
    /\ space = RootSpace(<<>>, "", <<>>)
    /\ spaceLast = NoSpaceOp
    /\ anLast = NoSpaceOp
    /\ serLast = NoSpaceOp
    /\ heap = NoSpaceOp
    /\ hLast = NoSpaceOp
    /\ dist = NoSpaceOp
    /\ query = NoSpaceOp
    /\ sem = NoSpaceOp
    /\ wire = NoSpaceOp

WidthAddPrefix ==
    /\ Len(width.calls) < MaxWidthCalls
    /\ \E prefix \in WidthAffixes :
          width' = [width EXCEPT
                       !.w = add_prefix(@, prefix),
                       !.calls = Append(@, [op |-> "add_prefix", affix |-> prefix])]
    /\ UNCHANGED <<space, spaceLast, anLast, serLast, heap, hLast, dist, query, sem, wire>>

WidthAddSuffix ==
    /\ Len(width.calls) < MaxWidthCalls
    /\ \E suffix \in WidthAffixes :
          width' = [width EXCEPT
                       !.w = add_suffix(@, suffix),
                       !.calls = Append(@, [op |-> "add_suffix", affix |-> suffix])]
    /\ UNCHANGED <<space, spaceLast, anLast, serLast, heap, hLast, dist, query, sem, wire>>

NextWidth == WidthAddPrefix \/ WidthAddSuffix

SpecWidth == InitWidth /\ [][NextWidth]_vars

(***************************************************************************)
(* The queries of MorphemeSpace: find_nearest, get_morphemes_in_range,     *)
(* compute_density, get_statistics.  A member is an instance               *)
(* [val |-> Morpheme, id |-> n]: two instances are the same object exactly *)
(* when they are equal as records.                                         *)
(***************************************************************************)
MaxQuery == 3

\* [(other, morpheme.distance_to(other)) for other in self.morphemes
\*     if other is not morpheme], from index i on
RECURSIVE Candidates(_, _, _)
Candidates(ms, q, i) ==
    IF i > Len(ms) THEN <<>>
    ELSE IF ms[i] # q
         THEN <<<<ms[i], distance_to(q.val, ms[i].val)>>>> \o Candidates(ms, q, i + 1)
         ELSE Candidates(ms, q, i + 1)

RECURSIVE InsertSorted_before(_, _)
InsertSorted_before(s, x) ==
    IF s = <<>> THEN <<x>>
    ELSE IF FLt(Head(s)[2], x[2]) THEN <<Head(s)>> \o InsertSorted_before(Tail(s), x)
    ELSE <<x>> \o s

\* x placed after every entry of the sorted s whose distance is <= x's
RECURSIVE InsertSorted(_, _)
InsertSorted(s, x) ==
    IF s = <<>> THEN <<x>>
    ELSE IF FLe(Head(s)[2], x[2]) THEN <<Head(s)>> \o InsertSorted(Tail(s), x)
    ELSE <<x>> \o s

\* list.sort(key=lambda x: x[1]): a stable sort by distance
RECURSIVE StableSort(_)
StableSort(s) ==
    IF s = <<>> THEN <<>>
    ELSE InsertSorted(StableSort(SubSeq(s, 1, Len(s) - 1)), s[Len(s)])

\* s[:k] for k >= 0
Take(s, k) == SubSeq(s, 1, IF k < Len(s) THEN k ELSE Len(s))

find_nearest_all(ms, q, k) == StableSort(Candidates(ms, q, 1))

\* MorphemeSpace.find_nearest
find_nearest(ms, q, k) == Take(StableSort(Candidates(ms, q, 1)), k)

\* A radius: a double with a sign
Radius(neg, mag) == [neg |-> neg, mag |-> mag]

\* radius <= 0
RadiusNotPositive(radius) == radius.neg \/ radius.mag = FZero

\* math.sqrt((mx - cx) ** 2 + (my - cy) ** 2 + (mz - cz) ** 2)
center_distance(m, center) ==
    LET c == coordinates(m)
    IN math_sqrt((c[1] - center[1]) * (c[1] - center[1])
                 + (c[2] - center[2]) * (c[2] - center[2])
                 + (c[3] - center[3]) * (c[3] - center[3]))

\* distance <= radius
WithinRadius(distance, radius) ==
    IF radius.neg /\ radius.mag # FZero THEN FALSE ELSE FLe(distance, radius.mag)

RECURSIVE InRangeFrom_exclusive(_, _, _, _)
InRangeFrom_exclusive(ms, center, radius, i) ==
    IF i > Len(ms) THEN <<>>
    ELSE IF ~radius.neg /\ FLt(center_distance(ms[i].val, center), radius.mag)
         THEN <<ms[i]>> \o InRangeFrom_exclusive(ms, center, radius, i + 1)
         ELSE InRangeFrom_exclusive(ms, center, radius, i + 1)

\* The loop of get_morphemes_in_range, from index i on
RECURSIVE InRangeFrom(_, _, _, _)
InRangeFrom(ms, center, radius, i) ==
    IF i > Len(ms) THEN <<>>
    ELSE IF WithinRadius(center_distance(ms[i].val, center), radius)
         THEN <<ms[i]>> \o InRangeFrom(ms, center, radius, i + 1)
         ELSE InRangeFrom(ms, center, radius, i + 1)

\* MorphemeSpace.get_morphemes_in_range
get_morphemes_in_range(ms, center, radius) == InRangeFrom(ms, center, radius, 1)

\* float('inf')
FInf == <<2000, 0, 0>>

\* radius ** 3 on a positive double: 0.0 when the cube is below the least
\* subnormal, OverflowError when it is above the greatest double.  Exact for
\* radii whose cube is not within a factor 8 of either limit.
float_pow3(mag) ==
    IF mag = FInf THEN "inf"
    ELSE IF 3 * mag[1] + 3 <= -1075 THEN "0.0"
    ELSE IF 3 * mag[1] >= 1024 THEN "OverflowError"
    ELSE "finite"

compute_density_count_all(ms, center, radius) == Len(ms)

\* len(self.get_morphemes_in_range(center, radius))
compute_density_count(ms, center, radius) ==
    Len(get_morphemes_in_range(ms, center, radius))

\* MorphemeSpace.compute_density.  A returned value is the literal 0.0 or the
\* quotient count / ((4 / 3) * math.pi * radius ** 3), kept as its operands.
compute_density(ms, center, radius) ==
    IF RadiusNotPositive(radius)
    THEN [raised |-> "", value |-> [kind |-> "0.0"]]
    ELSE LET count == compute_density_count(ms, center, radius)
             cube == float_pow3(radius.mag)
         IN IF cube = "OverflowError" THEN [raised |-> "OverflowError"]
            ELSE IF cube = "0.0" THEN [raised |-> "ZeroDivisionError"]
            ELSE [raised |-> "",
                  value |-> [kind |-> "count / volume", count |-> count,
                             radius |-> radius.mag]]

\* A value returned by compute_density is 0.0
DensityIsZero(v) ==
    \/ v.kind = "0.0"
    \/ v.kind = "count / volume" /\ (v.count = 0 \/ v.radius = FInf)

MinOf(S) == CHOOSE x \in S : \A y \in S : x <= y

MaxOf(S) == CHOOSE x \in S : \A y \in S : x >= y

\* (min(cs), max(cs)) of the members' coordinate on axis a
axis_range(ms, a) ==
    LET cs == {coordinates(ms[i].val)[a] : i \in 1..Len(ms)}
    IN <<MinOf(cs), MaxOf(cs)>>

\* The languages dict of get_statistics
language_counts(ms) ==
    [l \in {ms[i].val.language : i \in 1..Len(ms)} |->
        Cardinality({i \in 1..Len(ms) : ms[i].val.language = l})]

root_counts_once(ms) == [r \in {ms[i].val.root : i \in 1..Len(ms)} |-> 1]

\* The roots dict of get_statistics
root_counts(ms) ==
    [r \in {ms[i].val.root : i \in 1..Len(ms)} |->
        Cardinality({i \in 1..Len(ms) : ms[i].val.root = r})]

\* MorphemeSpace.get_statistics
get_statistics(ms) ==
    IF ms = <<>> THEN [count |-> 0]
    ELSE [count |-> Len(ms),
          x_range |-> axis_range(ms, 1),
          y_range |-> axis_range(ms, 2),
          z_range |-> axis_range(ms, 3),
          languages |-> language_counts(ms),
          unique_roots |-> Cardinality(DOMAIN root_counts(ms)),
          roots |-> root_counts(ms)]

\* Members for find_nearest: two objects of one value, an object of another
\* value at the same coordinates, and objects at two other coordinates
NearestInstances ==
    {[val |-> MorphemeAt(<<"f">>, <<"k">>, "ar", <<0, 1, 0>>), id |-> 1],
     [val |-> MorphemeAt(<<"f">>, <<"k">>, "ar", <<0, 1, 0>>), id |-> 2],
     [val |-> MorphemeAt(<<"g">>, <<"k">>, "ar", <<0, 1, 0>>), id |-> 1],
     [val |-> MorphemeAt(<<"f">>, <<"k">>, "ar", <<1, 1, 0>>), id |-> 1],
     [val |-> MorphemeAt(<<"f">>, <<"k">>, "ar", <<0, 2, 0>>), id |-> 1]}

RangeInstances ==
    {[val |-> MorphemeAt(<<"f">>, <<"k">>, "ar", c), id |-> 1] :
        c \in {<<0, 1, 0>>, <<1, 1, 0>>, <<1, 1, 1>>, <<2, 1, 0>>}}

QCenters == {<<0, 1, 0>>, <<1, 1, 0>>, <<-1, 2, 0>>}

\* -1.0, -0.0, 0.0, 1.0, math.sqrt(2), 1.5, 2.0, 2.0 ** -400, 2.0 ** 400, inf
QRadii ==
    {Radius(TRUE, FOne), Radius(TRUE, FZero), Radius(FALSE, FZero),
     Radius(FALSE, FOne), Radius(FALSE, math_sqrt(2)),
     Radius(FALSE, <<0, 100663296, 0>>), Radius(FALSE, <<1, Two26, 0>>),
     Radius(FALSE, <<-400, Two26, 0>>), Radius(FALSE, <<400, Two26, 0>>),
     Radius(FALSE, FInf)}

StatInstances ==
    {[val |-> MorphemeAt(<<"f">>, r, l, c), id |-> 1] :
        r \in {<<"k">>, <<"q">>}, l \in {"ar", "he"},
        c \in {<<0, 1, 0>>, <<2, 1, 5>>, <<1, 4, 0>>}}

InitQuery ==
    /\ \/ \E ms \in SeqsUpTo(NearestInstances, MaxQuery), q \in NearestInstances,
             k \in 0..MaxQuery :
             query = [op |-> "input", kind |-> "nearest", members |-> ms,
                      morpheme |-> q, k |-> k]
       \/ \E ms \in SeqsUpTo(RangeInstances, MaxQuery), center \in QCenters,
             radius \in QRadii :
             query = [op |-> "input", kind |-> "range", members |-> ms,
                      center |-> center, radius |-> radius]
       \/ \E ms \in SeqsUpTo(StatInstances, MaxQuery) :
             query = [op |-> "input", kind |-> "statistics", members |-> ms]
    /\ space = RootSpace(<<>>, "", <<>>)
    /\ spaceLast = NoSpaceOp
    /\ anLast = NoSpaceOp
    /\ serLast = NoSpaceOp
    /\ heap = NoSpaceOp
    /\ hLast = NoSpaceOp
    /\ width = NoSpaceOp
    /\ dist = NoSpaceOp
    /\ sem = NoSpaceOp
    /\ wire = NoSpaceOp

FindNearest ==
    /\ query.op = "input" /\ query.kind = "nearest"
    /\ query' = [op |-> "find_nearest", members |-> query.members,
                 morpheme |-> query.morpheme, k |-> query.k,
                 result |-> find_nearest(query.members, query.morpheme, query.k)]
    /\ UNCHANGED <<space, spaceLast, anLast, serLast, heap, hLast, width, dist, sem, wire>>

GetMorphemesInRange ==
    /\ query.op = "input" /\ query.kind = "range"
    /\ query' = [op |-> "get_morphemes_in_range", members |-> query.members,
                 center |-> query.center, radius |-> query.radius,
                 result |-> get_morphemes_in_range(query.members, query.center,
                                                   query.radius)]
    /\ UNCHANGED <<space, spaceLast, anLast, serLast, heap, hLast, width, dist, sem, wire>>

ComputeDensity ==
    /\ query.op = "input" /\ query.kind = "range"
    /\ query' = [op |-> "compute_density", members |-> query.members,
                 center |-> query.center, radius |-> query.radius,
                 result |-> compute_density(query.members, query.center,
                                            query.radius)]
    /\ UNCHANGED <<space, spaceLast, anLast, serLast, heap, hLast, width, dist, sem, wire>>

GetStatistics ==
    /\ query.op = "input" /\ query.kind = "statistics"
    /\ query' = [op |-> "get_statistics", members |-> query.members,
                 result |-> get_statistics(query.members)]
    /\ UNCHANGED <<space, spaceLast, anLast, serLast, heap, hLast, width, dist, sem, wire>>

NextQuery == FindNearest \/ GetMorphemesInRange \/ ComputeDensity \/ GetStatistics

SpecQuery == InitQuery /\ [][NextQuery]_vars

(***************************************************************************)
(* Claims about the concatenative analyzers                                *)
(***************************************************************************)

\* C3: for every input string, analyze_root of the English, Portuguese,
\* Russian and Sanskrit analyzers completes without raising and returns a
\* RootSpace for the given stem; the root-mismatch error of
\* RootSpace.add_morpheme never reaches the caller.
C3_AnalyzeRootNeverRaises ==
    anLast.op = "analyze_root" =>
       /\ ~anLast.out.raised
       /\ anLast.out.space.root = anLast.input

(***************************************************************************)
(* Serialization (Morpheme.to_dict / Morpheme.from_dict).  A dict is a     *)
(* function whose domain is its set of keys; the empty dict is <<>>.       *)
(***************************************************************************)
Get(d, k, default) == IF k \in DOMAIN d THEN d[k] ELSE default

\* SemanticLevel member name
level_name(v) ==
    CASE v = LITERAL -> "LITERAL"
      [] v = ALLUSIVE -> "ALLUSIVE"
      [] v = HOMILETIC -> "HOMILETIC"
      [] v = MYSTICAL -> "MYSTICAL"

layer_to_dict(layer) ==
    [level |-> layer.level.value, level_name |-> level_name(layer.level.value),
     meaning |-> layer.meaning, tradition |-> layer.tradition]

diacritic_to_dict(d) ==
    [symbol |-> d.symbol, name |-> d.name, position |-> d.position]

\* Morpheme.to_dict; layer.level.value raises AttributeError on a plain int
to_dict(m) ==
    IF \E i \in 1..Len(m.y.levels) : ~m.y.levels[i].level.enum
    THEN [raised |-> TRUE]
    ELSE [raised |-> FALSE,
          d |-> [form |-> m.form, root |-> m.root, language |-> m.language,
                 gloss |-> m.gloss, coordinates |-> coordinates(m),
                 width |-> [root |-> m.x.root, prefixes |-> m.x.prefixes,
                            suffixes |-> m.x.suffixes, pattern |-> m.x.pattern,
                            derivation_degree |-> m.x.derivation_degree],
                 depth |-> [current_level |-> m.y.current_level,
                            semantic_field |-> m.y.semantic_field,
                            levels |-> [i \in 1..Len(m.y.levels) |-> layer_to_dict(m.y.levels[i])]],
                 height |-> [base_form |-> m.z.base_form,
                             configuration_id |-> m.z.configuration_id,
                             vowels |-> m.z.vowels,
                             diacritics |-> [i \in 1..Len(m.z.diacritics) |-> diacritic_to_dict(m.z.diacritics[i])]],
                 metadata |-> m.metadata]]

\* The loop over depth_data["levels"]: depth.add_layer for each entry
layer_from_dict(layer_data) ==
    SemanticLayer(SemanticLevel(layer_data["level"]), layer_data["meaning"],
                  Get(layer_data, "tradition", ""), "")

diacritic_from_dict_noposition(d_data) ==
    Diacritic(d_data["symbol"], d_data["name"], "above", "vowel")

\* The loop over height_data["diacritics"]: height.add_diacritic for each entry
diacritic_from_dict(d_data) ==
    Diacritic(d_data["symbol"], d_data["name"], Get(d_data, "position", "above"),
              "vowel")

\* The Width(...) call of from_dict
width_from_dict(width_data) ==
    Width(Get(width_data, "root", <<>>),
          Get(width_data, "prefixes", <<>>),
          Get(width_data, "suffixes", <<>>),
          Get(width_data, "pattern", ""),
          Get(width_data, "derivation_degree", 0))

depth_from_dict_level0(depth_data) ==
    Depth([i \in 1..Len(Get(depth_data, "levels", <<>>)) |-> layer_from_dict(Get(depth_data, "levels", <<>>)[i])],
          Get(depth_data, "current_level", 0),
          Get(depth_data, "semantic_field", ""))

\* The Depth(...) call of from_dict and its add_layer loop
depth_from_dict(depth_data) ==
    Depth([i \in 1..Len(Get(depth_data, "levels", <<>>)) |-> layer_from_dict(Get(depth_data, "levels", <<>>)[i])],
          Get(depth_data, "current_level", 1),
          Get(depth_data, "semantic_field", ""))

\* The Height(...) call of from_dict and its add_diacritic loop
height_from_dict(height_data) ==
    Height(Get(height_data, "base_form", <<>>),
           [i \in 1..Len(Get(height_data, "diacritics", <<>>)) |-> diacritic_from_dict(Get(height_data, "diacritics", <<>>)[i])],
           Get(height_data, "vowels", <<>>),
           <<>>,
           Get(height_data, "configuration_id", 0))

\* Morpheme.from_dict.  KeyError on a missing form or root, on a layer entry
\* without level or meaning and on a diacritic entry without symbol or name;
\* ValueError when a level is not a SemanticLevel value.
from_dict(data) ==
    LET width_data == Get(data, "width", <<>>)
        depth_data == Get(data, "depth", <<>>)
        height_data == Get(data, "height", <<>>)
        layers == Get(depth_data, "levels", <<>>)
        dias == Get(height_data, "diacritics", <<>>)
        layersOK == \A i \in 1..Len(layers) :
                       /\ "level" \in DOMAIN layers[i]
                       /\ layers[i]["level"] \in LITERAL..MYSTICAL
                       /\ "meaning" \in DOMAIN layers[i]
        diasOK == \A i \in 1..Len(dias) :
                     /\ "symbol" \in DOMAIN dias[i]
                     /\ "name" \in DOMAIN dias[i]
    IN IF ~(layersOK /\ diasOK /\ "form" \in DOMAIN data /\ "root" \in DOMAIN data)
       THEN [raised |-> TRUE]
       ELSE [raised |-> FALSE,
             m |-> Morpheme(
                 data["form"], data["root"],
                 Get(data, "language", ""), Get(data, "gloss", ""),
                 width_from_dict(width_data),
                 depth_from_dict(depth_data),
                 height_from_dict(height_data),
                 Get(data, "metadata", <<>>))]

\* Morphemes to serialize: every combination of the field values below, with
\* at most SerMaxList layers and diacritics.
SerMaxList == 1

SerLayers ==
    {SemanticLayer(SemanticLevel(lv), "m", t, "src") : lv \in {LITERAL, MYSTICAL}, t \in {"", "t"}}

SerDiacritics ==
    {Diacritic("u", "damma", pos, "gemination") : pos \in {"above", "below"}}

SerWidths ==
    {Width(r, p, <<>>, "p", dg) :
        r \in {<<>>, <<"k">>}, p \in {<<>>, <<<<"a">>>>}, dg \in 0..1}

SerDepths ==
    {Depth(ls, cl, "field") : ls \in SeqsUpTo(SerLayers, SerMaxList), cl \in {1, 3}}

SerHeights ==
    {Height(<<"k">>, ds, vs, cs, cf) :
        ds \in SeqsUpTo(SerDiacritics, SerMaxList), vs \in {<<>>, <<"a">>},
        cs \in {<<>>, <<"c">>}, cf \in 0..1}

SerMorphemes ==
    {Morpheme(<<"k", "a">>, <<"k">>, lang, "g", x, y, z, md) :
        lang \in {"", "ar"}, x \in SerWidths, y \in SerDepths, z \in SerHeights,
        md \in {<<>>, [k |-> "v"]}}

\* Mappings to deserialize: each key present or absent, at every level.
Opt(k, vals) == {<<>>} \cup {k :> v : v \in vals}

SerLayerEntries ==
    {a @@ b @@ c : a \in Opt("level", {ALLUSIVE}), b \in Opt("meaning", {"m"}),
                   c \in Opt("tradition", {"t"})}

SerDiacriticEntries ==
    {a @@ b @@ c : a \in Opt("symbol", {"u"}), b \in Opt("name", {"damma"}),
                   c \in Opt("position", {"below"})}

SerWidthBlocks ==
    {<<>>, [root |-> <<"k">>], [prefixes |-> <<<<"a">>>>, derivation_degree |-> 2],
     [root |-> <<"k">>, suffixes |-> <<<<"b">>>>, pattern |-> "p"]}

SerDepthScalars ==
    {<<>>, [current_level |-> 3], [semantic_field |-> "field"]}

SerDepthBlocks ==
    SerDepthScalars
    \cup {[levels |-> ls] : ls \in SeqsUpTo(SerLayerEntries, SerMaxList)}

SerHeightScalars ==
    {<<>>, [base_form |-> <<"k">>], [configuration_id |-> 2, vowels |-> <<"a">>]}

SerHeightBlocks ==
    SerHeightScalars
    \cup {[diacritics |-> ds] : ds \in SeqsUpTo(SerDiacriticEntries, SerMaxList)}

\* The depth and height blocks of a mapping: one of them ranges over all its
\* blocks, the other is absent or one of its blocks without entries
SerDepthHeight ==
    {d @@ h : d \in Opt("depth", SerDepthBlocks), h \in Opt("height", SerHeightScalars)}
    \cup {d @@ h : d \in Opt("depth", SerDepthScalars), h \in Opt("height", SerHeightBlocks)}
    \cup {[depth |-> [levels |-> <<e>>], height |-> [diacritics |-> <<f>>]] :
             e \in SerLayerEntries, f \in SerDiacriticEntries}

SerDicts ==
    {f @@ r @@ l @@ w @@ dh :
        f \in Opt("form", {<<"k", "a">>}), r \in Opt("root", {<<"k">>}),
        l \in {<<>>, [language |-> "ar", gloss |-> "g", metadata |-> [k |-> "v"]]},
        w \in Opt("width", SerWidthBlocks), dh \in SerDepthHeight}

InitSer ==
    /\ \/ \E m \in SerMorphemes : serLast = [op |-> "input", m |-> m]
       \/ \E data \in SerDicts : serLast = [op |-> "input", data |-> data]
    /\ space = RootSpace(<<>>, "", <<>>)
    /\ spaceLast = NoSpaceOp
    /\ width = NoSpaceOp
    /\ dist = NoSpaceOp
    /\ query = NoSpaceOp
    /\ anLast = NoSpaceOp
    /\ heap = NoSpaceOp
    /\ hLast = NoSpaceOp
    /\ sem = NoSpaceOp
    /\ wire = NoSpaceOp

\* r = Morpheme.from_dict(m.to_dict()), then r.to_dict()
RoundTrip ==
    /\ serLast.op = "input"
    /\ "m" \in DOMAIN serLast
    /\ LET m == serLast.m
           d == to_dict(m)
           r == IF d.raised THEN [raised |-> TRUE] ELSE from_dict(d.d)
           d2 == IF r.raised THEN [raised |-> TRUE] ELSE to_dict(r.m)
       IN serLast' = [op |-> "roundtrip", m |-> m, d |-> d, r |-> r, d2 |-> d2]
    /\ UNCHANGED <<space, spaceLast, anLast, heap, hLast, width, dist, query, sem, wire>>

\* Morpheme.from_dict(data)
FromDict ==
    /\ serLast.op = "input"
    /\ "data" \in DOMAIN serLast
    /\ serLast' = [op |-> "from_dict", data |-> serLast.data,
                   r |-> from_dict(serLast.data)]
    /\ UNCHANGED <<space, spaceLast, anLast, heap, hLast, width, dist, query, sem, wire>>

NextSer == RoundTrip \/ FromDict

SpecSer == InitSer /\ [][NextSer]_vars

(***************************************************************************)
(* Morpheme.to_dict and Morpheme.from_dict on the object heap: which list  *)
(* and dict objects the returned dictionary and the restored Morpheme      *)
(* share with the Morpheme they come from.  heap.T holds the dictionaries  *)
(* to_dict returned; an entry holds the ids of the list and dict objects   *)
(* it refers to, and in "of" the Morpheme it was made from.                *)
(***************************************************************************)
MaxAliasSteps == 3

\* m.metadata[key] = value on the Morpheme mid (metadata is an open dict)
H_set_metadata(h, mid, key, value) ==
    [h EXCEPT !.L[h.M[mid].metadata] = (key :> value) @@ @]

\* Morpheme.to_dict on the Morpheme mid: the dict display builds new dicts, a
\* new coordinates list and new lists of layer and diacritic dicts; prefixes,
\* suffixes, vowels and metadata are the Morpheme's own objects.  (The layers
\* of the Morphemes on this heap have SemanticLevel levels: no AttributeError.)
H_to_dict(h, mid) ==
    LET m == h.M[mid]
        c == NewList(h, coordinates(DerefM(h, mid)))
        lv == NewList(c.heap, [i \in 1..Len(h.L[h.D[m.y].levels]) |->
                                  layer_to_dict(h.L[h.D[m.y].levels][i])])
        di == NewList(lv.heap, [i \in 1..Len(h.L[h.H[m.z].diacritics]) |->
                                   diacritic_to_dict(h.L[h.H[m.z].diacritics][i])])
    IN [heap |-> [di.heap EXCEPT !.T = Append(@,
                     [of |-> mid,
                      form |-> m.form, root |-> m.root, language |-> m.language,
                      gloss |-> m.gloss, coordinates |-> c.id,
                      width |-> [root |-> h.W[m.x].root,
                                 prefixes |-> h.W[m.x].prefixes,
                                 suffixes |-> h.W[m.x].suffixes,
                                 pattern |-> h.W[m.x].pattern,
                                 derivation_degree |-> h.W[m.x].derivation_degree],
                      depth |-> [current_level |-> h.D[m.y].current_level,
                                 semantic_field |-> h.D[m.y].semantic_field,
                                 levels |-> lv.id],
                      height |-> [base_form |-> h.H[m.z].base_form,
                                  configuration_id |-> h.H[m.z].configuration_id,
                                  vowels |-> h.H[m.z].vowels,
                                  diacritics |-> di.id],
                      metadata |-> m.metadata])],
        id |-> Len(h.T) + 1]

\* The value of the dictionary did
DerefT(h, did) ==
    LET t == h.T[did]
    IN [form |-> t.form, root |-> t.root, language |-> t.language, gloss |-> t.gloss,
        coordinates |-> h.L[t.coordinates],
        width |-> [t.width EXCEPT !.prefixes = h.L[@], !.suffixes = h.L[@]],
        depth |-> [t.depth EXCEPT !.levels = h.L[@]],
        height |-> [t.height EXCEPT !.vowels = h.L[@], !.diacritics = h.L[@]],
        metadata |-> h.L[t.metadata]]

\* Morpheme.from_dict on the dictionary did: Width and Height are given the
\* prefixes, suffixes and vowels objects of the dictionary, the Morpheme its
\* metadata object; the layers and diacritics are added to new lists
H_from_dict(h, did) ==
    LET t == h.T[did]
        lv == NewList(h, [i \in 1..Len(h.L[t.depth.levels]) |->
                             layer_from_dict(h.L[t.depth.levels][i])])
        di == NewList(lv.heap, [i \in 1..Len(h.L[t.height.diacritics]) |->
                                   diacritic_from_dict(h.L[t.height.diacritics][i])])
        ca == NewList(di.heap, <<>>)
    IN [heap |-> [ca.heap EXCEPT
                     !.W = Append(@, Width(t.width.root, t.width.prefixes, t.width.suffixes,
                                           t.width.pattern, t.width.derivation_degree)),
                     !.D = Append(@, Depth(lv.id, t.depth.current_level,
                                           t.depth.semantic_field)),
                     !.H = Append(@, Height(t.height.base_form, di.id, t.height.vowels,
                                            ca.id, t.height.configuration_id)),
                     !.M = Append(@, Morpheme(t.form, t.root, t.language, t.gloss,
                                              Len(h.W) + 1, Len(h.D) + 1, Len(h.H) + 1,
                                              t.metadata)),
                     !.origin = Append(@, [op |-> "from_dict", of |-> did])],
        id |-> Len(h.M) + 1]

\* Morphemes to serialize: one with every list filled, one with default dimensions
AliasInitMorphemes ==
    {Morpheme(<<"f">>, <<"k">>, "ar", "g",
              Width(<<"k">>, <<<<"p">>>>, <<<<"s">>>>, "pat", 2),
              Depth(<<HeapLayer>>, ALLUSIVE, "field"),
              Height(<<"k">>, <<HeapDiacritic>>, <<"a">>, <<>>, 1), <<>>),
     Morpheme(<<"f">>, <<"k">>, "ar", "", DefaultWidth, DefaultDepth, DefaultHeight, <<>>)}

InitAlias ==
    /\ \E v \in AliasInitMorphemes :
          heap = AllocMorpheme(EmptyHeap @@ [T |-> <<>>], v).heap
    /\ hLast = [op |-> "none"]
    /\ space = RootSpace(<<>>, "", <<>>)
    /\ spaceLast = NoSpaceOp
    /\ anLast = NoSpaceOp
    /\ serLast = NoSpaceOp
    /\ width = NoSpaceOp
    /\ dist = NoSpaceOp
    /\ query = NoSpaceOp
    /\ sem = NoSpaceOp
    /\ wire = NoSpaceOp

\* d = m.to_dict() for a Morpheme m of the heap
AliasToDict ==
    /\ heap.steps < MaxAliasSteps
    /\ \E mid \in Mids :
          LET r == H_to_dict(heap, mid)
          IN /\ heap' = Step(r.heap)
             /\ hLast' = [op |-> "to_dict", recv |-> mid, res |-> r.id,
                          before |-> DerefAll(heap)]
    /\ UNCHANGED <<space, spaceLast, anLast, serLast, width, dist, query, sem, wire>>

\* r = Morpheme.from_dict(d) for a dictionary d that to_dict returned
AliasFromDict ==
    /\ heap.steps < MaxAliasSteps
    /\ \E did \in 1..Len(heap.T) :
          LET r == H_from_dict(heap, did)
          IN /\ heap' = Step(r.heap)
             /\ hLast' = [op |-> "from_dict", dict |-> did, res |-> r.id,
                          before |-> DerefAll(heap)]
    /\ UNCHANGED <<space, spaceLast, anLast, serLast, width, dist, query, sem, wire>>

\* m.x.add_prefix(p), m.x.add_suffix(s), m.z.vowels.append(v) and
\* m.metadata[k] = v on a Morpheme m of the heap
AliasMutateMorpheme ==
    /\ heap.steps < MaxAliasSteps
    /\ \E mid \in Mids, what \in {"add_prefix", "add_suffix", "append_vowel",
                                  "set_metadata"} :
          /\ heap' = Step(
                CASE what = "add_prefix" -> H_add_prefix(heap, heap.M[mid].x, <<"a">>)
                  [] what = "add_suffix" -> H_add_suffix(heap, heap.M[mid].x, <<"b">>)
                  [] what = "append_vowel" -> H_append_vowel(heap, heap.M[mid].z, "i")
                  [] what = "set_metadata" -> H_set_metadata(heap, mid, "source", "corpus"))
          /\ hLast' = [op |-> what, recv |-> mid, before |-> DerefAll(heap)]
    /\ UNCHANGED <<space, spaceLast, anLast, serLast, width, dist, query, sem, wire>>

\* d["width"]["prefixes"].append(p), d["width"]["suffixes"].append(s),
\* d["height"]["vowels"].append(v), d["metadata"][k] = v, d["coordinates"][0] = n
\* and d["form"] = s on a dictionary d that to_dict returned
AliasMutateDict ==
    /\ heap.steps < MaxAliasSteps
    /\ \E did \in 1..Len(heap.T),
          what \in {"dict_prefixes_append", "dict_suffixes_append", "dict_vowels_append",
                    "dict_metadata_set", "dict_coordinates_set", "dict_form_set"} :
          /\ heap' = Step(
                CASE what = "dict_prefixes_append" ->
                        [heap EXCEPT !.L[heap.T[did].width.prefixes] = Append(@, <<"a">>)]
                  [] what = "dict_suffixes_append" ->
                        [heap EXCEPT !.L[heap.T[did].width.suffixes] = Append(@, <<"b">>)]
                  [] what = "dict_vowels_append" ->
                        [heap EXCEPT !.L[heap.T[did].height.vowels] = Append(@, "i")]
                  [] what = "dict_metadata_set" ->
                        [heap EXCEPT !.L[heap.T[did].metadata] = ("source" :> "corpus") @@ @]
                  [] what = "dict_coordinates_set" ->
                        [heap EXCEPT !.L[heap.T[did].coordinates][1] = 9]
                  [] what = "dict_form_set" ->
                        [heap EXCEPT !.T[did].form = <<"x">>])
          /\ hLast' = [op |-> what, dict |-> did, before |-> DerefAll(heap)]
    /\ UNCHANGED <<space, spaceLast, anLast, serLast, width, dist, query, sem, wire>>

NextAlias == AliasToDict \/ AliasFromDict \/ AliasMutateMorpheme \/ AliasMutateDict

SpecAlias == InitAlias /\ [][NextAlias]_vars

(***************************************************************************)
(* MandarinAnalyzer (ttm/analyzers/mandarin.py).  The tone-marked vowels   *)
(* of PINYIN_TONES are named by vowel and mark (V is u with diaeresis);    *)
(* CARON is the combining mark on its own, which is not in the table.      *)
(***************************************************************************)
PINYIN_TONES ==
    [c \in {"A_MACRON", "E_MACRON", "I_MACRON", "O_MACRON", "U_MACRON", "V_MACRON"} |-> 1] @@
    [c \in {"A_ACUTE", "E_ACUTE", "I_ACUTE", "O_ACUTE", "U_ACUTE", "V_ACUTE"} |-> 2] @@
    [c \in {"A_CARON", "E_CARON", "I_CARON", "O_CARON", "U_CARON", "V_CARON"} |-> 3] @@
    [c \in {"A_GRAVE", "E_GRAVE", "I_GRAVE", "O_GRAVE", "U_GRAVE", "V_GRAVE"} |-> 4]

\* the for loop of _extract_tones
RECURSIVE TonesFrom(_)
TonesFrom(pinyin) ==
    IF pinyin = <<>> THEN <<>>
    ELSE IF Head(pinyin) \in DOMAIN PINYIN_TONES
         THEN <<PINYIN_TONES[Head(pinyin)]>> \o TonesFrom(Tail(pinyin))
         ELSE TonesFrom(Tail(pinyin))

\* MandarinAnalyzer._extract_tones
extract_tones(pinyin) ==
    IF TonesFrom(pinyin) = <<>> /\ pinyin # <<>> THEN <<5>> ELSE TonesFrom(pinyin)

tone_configuration_last(tones) == IF tones # <<>> THEN tones[Len(tones)] ELSE 5

\* configuration_id=tones[0] if tones else 5
tone_configuration(tones) == IF tones # <<>> THEN tones[1] ELSE 5

\* MandarinAnalyzer.parse_morpheme
Mandarin_parse_morpheme(form, pinyin) ==
    Morpheme(form, form, "zh", "", Width(form, <<>>, <<>>, "", 0),
             DefaultDepth,
             Height(pinyin, <<>>, <<>>, <<>>, tone_configuration(extract_tones(pinyin))),
             <<>>)

(***************************************************************************)
(* parse_morpheme of every analyzer, followed by Morpheme.to_dict and      *)
(* Morpheme.from_dict on its result.                                       *)
(***************************************************************************)
Analyzers == {"ar", "he", "en", "pt", "ru", "sa", "zh"}

\* parse_morpheme of the analyzer of a language; pinyin is read by Mandarin only
any_parse_morpheme(lang, form, pinyin) ==
    CASE lang \in SemLanguages -> Semitic_parse_morpheme(lang, form)
      [] lang \in Languages -> parse_morpheme(lang, form)
      [] lang = "zh" -> Mandarin_parse_morpheme(form, pinyin)

\* Input forms: for Arabic and Hebrew every string of at most WireMaxLen
\* characters over a consonant and one mark of each language; for the
\* concatenative analyzers the inputs of SpecAn; for Mandarin one character
\* with every pinyin string of at most PinyinMaxLen characters.
WireMaxLen == 2

PinyinMaxLen == 3

PinyinChars == {"h", "a", "A_CARON", "O_GRAVE", "CARON"}

WireForms(lang) ==
    CASE lang \in SemLanguages -> SeqsUpTo({"k", "FATHA", "SEGOL"}, WireMaxLen)
      [] lang \in Languages -> AnInputs
      [] lang = "zh" -> {<<"HAO">>}

WirePinyin(lang) ==
    IF lang = "zh" THEN SeqsUpTo(PinyinChars, PinyinMaxLen) ELSE {<<>>}

InitWire ==
    /\ \E lang \in Analyzers :
          \E form \in WireForms(lang), pinyin \in WirePinyin(lang) :
             wire = [op |-> "input", lang |-> lang, form |-> form, pinyin |-> pinyin]
    /\ space = RootSpace(<<>>, "", <<>>)
    /\ spaceLast = NoSpaceOp
    /\ anLast = NoSpaceOp
    /\ serLast = NoSpaceOp
    /\ heap = NoSpaceOp
    /\ hLast = NoSpaceOp
    /\ width = NoSpaceOp
    /\ dist = NoSpaceOp
    /\ query = NoSpaceOp
    /\ sem = NoSpaceOp

\* m = analyzer.parse_morpheme(form) (Mandarin: parse_morpheme(form, pinyin))
WireParse ==
    /\ wire.op = "input"
    /\ wire' = [wire EXCEPT !.op = "parse_morpheme"] @@
               [m |-> any_parse_morpheme(wire.lang, wire.form, wire.pinyin)]
    /\ UNCHANGED <<space, spaceLast, anLast, serLast, heap, hLast, width, dist, query, sem>>

\* d = m.to_dict()
WireToDict ==
    /\ wire.op = "parse_morpheme"
    /\ wire' = [wire EXCEPT !.op = "to_dict"] @@ [d |-> to_dict(wire.m)]
    /\ UNCHANGED <<space, spaceLast, anLast, serLast, heap, hLast, width, dist, query, sem>>

\* r = Morpheme.from_dict(d), for a d that to_dict returned
WireFromDict ==
    /\ wire.op = "to_dict"
    /\ ~wire.d.raised
    /\ wire' = [wire EXCEPT !.op = "from_dict"] @@ [r |-> from_dict(wire.d.d)]
    /\ UNCHANGED <<space, spaceLast, anLast, serLast, heap, hLast, width, dist, query, sem>>

NextWire == WireParse \/ WireToDict \/ WireFromDict

SpecWire == InitWire /\ [][NextWire]_vars

(***************************************************************************)
(* Claims about serialization                                              *)
(***************************************************************************)

\* C4: for every Morpheme m, r = from_dict(m.to_dict()) has the form, root,
\* language, gloss and coordinates of m, and r.to_dict() equals m.to_dict().
C4_RoundTrip ==
    serLast.op = "roundtrip" =>
       /\ ~serLast.d.raised /\ ~serLast.r.raised /\ ~serLast.d2.raised
       /\ serLast.r.m.form = serLast.m.form
       /\ serLast.r.m.root = serLast.m.root
       /\ serLast.r.m.language = serLast.m.language
       /\ serLast.r.m.gloss = serLast.m.gloss
       /\ coordinates(serLast.r.m) = coordinates(serLast.m)
       /\ serLast.d2.d = serLast.d.d

\* A round trip of a morpheme with a layer, a diacritic below, a cantillation
\* mark and metadata: the restored morpheme is not the original, its
\* serialization is.
C4_Witness ==
    /\ serLast.op = "roundtrip"
    /\ Len(serLast.m.y.levels) >= 1
    /\ Len(serLast.m.z.diacritics) >= 1
    /\ serLast.m.z.diacritics[1].position = "below"
    /\ serLast.m.z.cantillation # <<>>
    /\ serLast.m.metadata # <<>>
    /\ serLast.m.x.derivation_degree = 1
    /\ ~serLast.r.raised
    /\ serLast.r.m # serLast.m

Has(d, k) == k \in DOMAIN d

HasIn(d, blk, k) == blk \in DOMAIN d /\ k \in DOMAIN d[blk]

EntriesOf(d, blk, k) == IF HasIn(d, blk, k) THEN d[blk][k] ELSE <<>>

\* Every omitted field of the mapping has its default in the Morpheme m
OmittedAreDefault(data, m) ==
    /\ ~Has(data, "language") => m.language = ""
    /\ ~Has(data, "gloss") => m.gloss = ""
    /\ ~Has(data, "metadata") => m.metadata = <<>>
    /\ ~HasIn(data, "width", "root") => m.x.root = <<>>
    /\ ~HasIn(data, "width", "prefixes") => m.x.prefixes = <<>>
    /\ ~HasIn(data, "width", "suffixes") => m.x.suffixes = <<>>
    /\ ~HasIn(data, "width", "pattern") => m.x.pattern = ""
    /\ ~HasIn(data, "width", "derivation_degree") => m.x.derivation_degree = 0
    /\ ~HasIn(data, "depth", "current_level") => m.y.current_level = 1
    /\ ~HasIn(data, "depth", "semantic_field") => m.y.semantic_field = ""
    /\ ~HasIn(data, "depth", "levels") => m.y.levels = <<>>
    /\ ~HasIn(data, "height", "base_form") => m.z.base_form = <<>>
    /\ ~HasIn(data, "height", "configuration_id") => m.z.configuration_id = 0
    /\ ~HasIn(data, "height", "vowels") => m.z.vowels = <<>>
    /\ ~HasIn(data, "height", "diacritics") => m.z.diacritics = <<>>
    /\ LET es == EntriesOf(data, "depth", "levels")
       IN /\ Len(m.y.levels) = Len(es)
          /\ \A i \in 1..Len(es) : ~Has(es[i], "tradition") => m.y.levels[i].tradition = ""
    /\ LET es == EntriesOf(data, "height", "diacritics")
       IN /\ Len(m.z.diacritics) = Len(es)
          /\ \A i \in 1..Len(es) : ~Has(es[i], "position") => m.z.diacritics[i].position = "above"
    /\ ({"width", "depth", "height"} \cap DOMAIN data = {}) => coordinates(m) = <<0, 1, 0>>

\* Some layer entry lacks level or meaning, or some diacritic entry symbol or name
EntryIncomplete(data) ==
    \/ \E i \in 1..Len(EntriesOf(data, "depth", "levels")) :
          ~Has(data.depth.levels[i], "level") \/ ~Has(data.depth.levels[i], "meaning")
    \/ \E i \in 1..Len(EntriesOf(data, "height", "diacritics")) :
          ~Has(data.height.diacritics[i], "symbol") \/ ~Has(data.height.diacritics[i], "name")

\* C5: from_dict succeeds on every mapping that has form and root, whichever
\* other keys are omitted at the top level, inside the width, depth and height
\* blocks and inside the layer and diacritic entries; every omitted field has
\* its zero value, the coordinates being (0, 1, 0) without the three blocks;
\* from_dict fails exactly when form or root is missing.
C5_FailsOnlyWithoutFormOrRoot ==
    serLast.op = "from_dict" =>
       /\ serLast.r.raised <=> (~Has(serLast.data, "form") \/ ~Has(serLast.data, "root"))
       /\ ~serLast.r.raised => OmittedAreDefault(serLast.data, serLast.r.m)

\* C5 (amended): from_dict succeeds on every mapping that has form and root
\* and whose layer entries all have level and meaning and whose diacritic
\* entries all have symbol and name, whichever other keys are omitted; every
\* omitted field has its default; it fails exactly when form or root, a
\* layer's level or meaning, or a diacritic's symbol or name is missing.
C5_FromDictPartial ==
    serLast.op = "from_dict" =>
       /\ serLast.r.raised <=> \/ ~Has(serLast.data, "form")
                               \/ ~Has(serLast.data, "root")
                               \/ EntryIncomplete(serLast.data)
       /\ ~serLast.r.raised => OmittedAreDefault(serLast.data, serLast.r.m)

\* from_dict of a mapping with form, root and one layer entry that has level
\* and meaning but no tradition, and no width and height blocks
C5_Witness ==
    /\ serLast.op = "from_dict"
    /\ ~serLast.r.raised
    /\ DOMAIN serLast.data = {"form", "root", "depth"}
    /\ Len(EntriesOf(serLast.data, "depth", "levels")) = 1
    /\ ~Has(serLast.data.depth.levels[1], "tradition")
    /\ serLast.r.m.y.levels[1].tradition = ""
    /\ coordinates(serLast.r.m) = <<0, 1, 0>>

(***************************************************************************)
(* Claims about RootSpace                                                  *)
(***************************************************************************)

\* C1: in every state reached from the construction of a RootSpace (with or
\* without an initial member list) by add_morpheme and remove_morpheme calls,
\* every member's root equals the root of the space.
C1_MembersShareRoot ==
    \A i \in 1..len(space) : space.morphemes[i].val.root = space.root

\* C2: RootSpace.add_morpheme(m) with a root other than the space's raises and
\* leaves the member list as it was; with the space's root it does not raise,
\* appends m and makes the length one more.
C2_AddMorpheme ==
    spaceLast.op = "add" =>
       IF spaceLast.arg.val.root # spaceLast.before.root
       THEN /\ spaceLast.raised
            /\ space.morphemes = spaceLast.before.morphemes
       ELSE /\ ~spaceLast.raised
            /\ space.morphemes = Append(spaceLast.before.morphemes, spaceLast.arg)
            /\ len(space) = len(spaceLast.before) + 1

C2_Witness ==
    /\ spaceLast.op = "add"
    /\ spaceLast.raised
    /\ len(space) >= 2
    /\ \E i \in 1..len(space) : space.morphemes[i].val.root = space.root

(***************************************************************************)
(* Claims about the axis translations                                      *)
(***************************************************************************)
TranslateOps == {"translate_along_x", "translate_along_y", "translate_along_z"}

\* Morpheme b is the value returned by a call, one of ops, on Morpheme a
DerivedBy(ops, a, b) ==
    /\ heap.origin[b].op \in ops
    /\ heap.origin[b].of = a

RelatedBy(ops, a, b) == DerivedBy(ops, a, b) \/ DerivedBy(ops, b, a)

DimsOf(v) == <<v.x, v.y, v.z, full_form(v.x), coordinates(v)>>

AffixList(a) == IF a # <<>> THEN <<a>> ELSE <<>>

\* C6: when d is the value of m.translate_along_y(level) or of
\* m.translate_along_z(form, id), an add_prefix, add_suffix, add_layer or
\* add_diacritic applied afterwards to a dimension of one of the two leaves the
\* Width, Depth, Height, full_form and coordinates of the other as they were.
C6_NoSharedDimensionState ==
    hLast.op \in {"add_prefix", "add_suffix", "add_layer", "add_diacritic"} =>
       \A m \in Mids :
          RelatedBy({"translate_along_y", "translate_along_z"}, m, hLast.recv) =>
             DimsOf(DerefM(heap, m)) = DimsOf(hLast.before[m])

\* C7: right after d = m.translate_along_x(prefix, suffix), d's Depth and
\* Height hold the state m's hold (layers, current level, semantic field; base
\* form, diacritics, vowels, cantillation, configuration id); and an add_layer,
\* add_diacritic or vowel append applied afterwards to the Depth or Height of
\* one of the two leaves the Depth and Height of the other as they were.
C7_TranslateXCopiesDepthHeight ==
    /\ hLast.op = "translate_along_x" =>
          /\ DerefM(heap, hLast.res).y = hLast.before[hLast.recv].y
          /\ DerefM(heap, hLast.res).z = hLast.before[hLast.recv].z
    /\ hLast.op \in {"add_layer", "add_diacritic", "append_vowel"} =>
          \A m \in Mids :
             RelatedBy({"translate_along_x"}, m, hLast.recv) =>
                /\ DerefM(heap, m).y = hLast.before[m].y
                /\ DerefM(heap, m).z = hLast.before[m].z

\* C8: right after a call of translate_along_x, translate_along_y or
\* translate_along_z the receiver's form, root, language, gloss, coordinates
\* and the contents of its Width, Depth and Height are what they were before
\* the call, and the value returned is a Morpheme that did not exist before
\* the call (so it is not the receiver).
C8_ReceiverUnchanged ==
    hLast.op \in TranslateOps =>
       /\ DerefM(heap, hLast.recv) = hLast.before[hLast.recv]
       /\ coordinates(DerefM(heap, hLast.recv)) = coordinates(hLast.before[hLast.recv])
       /\ hLast.res # hLast.recv
       /\ hLast.res \notin DOMAIN hLast.before
       /\ hLast.res \in Mids

C8_Witness ==
    /\ hLast.op = "translate_along_x"
    /\ hLast.prefix # <<>>
    /\ hLast.suffix # <<>>
    /\ hLast.before[hLast.recv].x.prefixes # <<>>
    /\ DerefM(heap, hLast.res).x.prefixes # hLast.before[hLast.recv].x.prefixes

\* What C9 says of the result r of translate_along_x on a receiver that was b,
\* apart from the root of r's Width
TranslateXAffixes(b, r) ==
    /\ r.x.pattern = b.x.pattern
    /\ r.x.prefixes = b.x.prefixes \o AffixList(hLast.prefix)
    /\ r.x.suffixes = b.x.suffixes \o AffixList(hLast.suffix)
    /\ r.x.derivation_degree =
          b.x.derivation_degree + Len(AffixList(hLast.prefix))
                                + Len(AffixList(hLast.suffix))
    /\ r.form = Concat(r.x.prefixes) \o r.x.root \o Concat(r.x.suffixes)

\* C9: m.translate_along_x(prefix, suffix) returns a Morpheme whose Width has
\* the receiver's Width root and pattern, the receiver's prefixes followed by
\* the given prefix, the receiver's suffixes followed by the given suffix and a
\* derivation degree raised by one for each affix given; the result's form is
\* concat(prefixes) + Width root + concat(suffixes) of the new Width.
C9_TranslateXWidth ==
    hLast.op = "translate_along_x" =>
       /\ DerefM(heap, hLast.res).x.root = hLast.before[hLast.recv].x.root
       /\ TranslateXAffixes(hLast.before[hLast.recv], DerefM(heap, hLast.res))

\* C9 (amended): as C9, but the root of the result's Width is the receiver's
\* Width root only when that is not empty; when the receiver's Width root is
\* empty it is the receiver's own root.
C9_TranslateXWidthRootFallback ==
    hLast.op = "translate_along_x" =>
       /\ DerefM(heap, hLast.res).x.root =
             IF hLast.before[hLast.recv].x.root # <<>>
             THEN hLast.before[hLast.recv].x.root
             ELSE hLast.before[hLast.recv].root
       /\ TranslateXAffixes(hLast.before[hLast.recv], DerefM(heap, hLast.res))

C9_Witness ==
    /\ hLast.op = "translate_along_x"
    /\ hLast.prefix # <<>>
    /\ hLast.suffix # <<>>
    /\ hLast.before[hLast.recv].x.root = <<>>
    /\ hLast.before[hLast.recv].root # <<>>
    /\ DerefM(heap, hLast.res).x.derivation_degree =
          hLast.before[hLast.recv].x.derivation_degree + 2

\* root, language and gloss of the result r are those of the receiver b
KeepsIdentity(b, r) ==
    /\ r.root = b.root
    /\ r.language = b.language
    /\ r.gloss = b.gloss

\* C10: for coordinates (x, y, z) of the receiver, translate_along_x yields
\* (x + number of affixes given, y, z), translate_along_y(level) yields
\* (x, numeric value of level, z) with the same form and the same layer
\* sequence, translate_along_z(f, c) yields (x, y, c); all three keep root,
\* language and gloss.
C10_AxisTranslations ==
    hLast.op \in TranslateOps =>
       LET b == hLast.before[hLast.recv]
           r == DerefM(heap, hLast.res)
           c == coordinates(b)
       IN /\ KeepsIdentity(b, r)
          /\ hLast.op = "translate_along_x" =>
                coordinates(r) = <<c[1] + Len(AffixList(hLast.prefix))
                                        + Len(AffixList(hLast.suffix)), c[2], c[3]>>
          /\ hLast.op = "translate_along_y" =>
                /\ coordinates(r) = <<c[1], hLast.level, c[3]>>
                /\ r.form = b.form
                /\ r.y.levels = b.y.levels
          /\ hLast.op = "translate_along_z" =>
                coordinates(r) = <<c[1], c[2], hLast.config_id>>

C10_Witness ==
    /\ hLast.op = "translate_along_y"
    /\ hLast.level # hLast.before[hLast.recv].y.current_level
    /\ hLast.before[hLast.recv].y.levels # <<>>
    /\ hLast.before[hLast.recv].x.derivation_degree > 0
    /\ coordinates(DerefM(heap, hLast.res))[2] = hLast.level

\* C11: m.translate_along_z(newForm, configId) returns a Morpheme whose form is
\* newForm and whose Height has base_form equal to m's Height base_form when
\* that is non-empty and to m's surface form otherwise, configuration_id equal
\* to configId, and empty diacritic and vowel sequences.
C11_TranslateZHeight ==
    hLast.op = "translate_along_z" =>
       LET b == hLast.before[hLast.recv]
           r == DerefM(heap, hLast.res)
       IN /\ r.form = hLast.vocalization
          /\ r.z.base_form = IF b.z.base_form # <<>> THEN b.z.base_form ELSE b.form
          /\ r.z.configuration_id = hLast.config_id
          /\ r.z.diacritics = <<>>
          /\ r.z.vowels = <<>>

C11_Witness ==
    /\ hLast.op = "translate_along_z"
    /\ hLast.before[hLast.recv].z.base_form = <<>>
    /\ hLast.before[hLast.recv].z.diacritics # <<>>
    /\ hLast.before[hLast.recv].z.vowels # <<>>
    /\ hLast.config_id # hLast.before[hLast.recv].z.configuration_id
    /\ DerefM(heap, hLast.res).z.base_form = hLast.before[hLast.recv].form

(***************************************************************************)
(* Claims about Morpheme.distance_to                                       *)
(***************************************************************************)

\* C12: a.distance_to(b) equals b.distance_to(a), and a.distance_to(b) is zero
\* exactly when a and b have identical coordinates, whatever their form, root,
\* language or gloss; so a.distance_to(a) is 0.
C12_DistanceSymmetricZero ==
    dist.op = "distances" =>
       /\ dist.ab = dist.ba
       /\ dist.ab = FZero <=> coordinates(dist.a) = coordinates(dist.b)
       /\ dist.aa = FZero

C12_Witness ==
    /\ dist.op = "distances"
    /\ dist.a # dist.b
    /\ dist.a.form # dist.b.form
    /\ coordinates(dist.a) = coordinates(dist.b)
    /\ dist.ab = FZero

\* C13: for Morphemes a, b and c with integer coordinates, a.distance_to(c) is
\* at most a.distance_to(b) + b.distance_to(c).
C13_Triangle ==
    dist.op = "triangle" => FLe(dist.ac, FAdd(dist.ab, dist.bc))

\* C13 (amended): a.distance_to(c) is at most
\* a.distance_to(b) + b.distance_to(c) + 1e-10, the sum being the floating-point
\* sum; it also never exceeds the double next above
\* a.distance_to(b) + b.distance_to(c).
C13_TriangleWithTolerance ==
    dist.op = "triangle" =>
       /\ FLe(dist.ac, FAdd(FAdd(dist.ab, dist.bc), Eps))
       /\ FLe(dist.ac, FNext(FAdd(dist.ab, dist.bc)))

C13_Witness ==
    /\ dist.op = "triangle"
    /\ FLt(FAdd(dist.ab, dist.bc), dist.ac)
    /\ FLe(dist.ac, FAdd(FAdd(dist.ab, dist.bc), Eps))

(***************************************************************************)
(* Claims about Width                                                      *)
(***************************************************************************)

\* The affixes given to the calls of kind op, in call order
AffixesGiven(calls, op) ==
    LET IsOp(c) == c.op = op
        sel == SelectSeq(calls, IsOp)
    IN [i \in 1..Len(sel) |-> sel[i].affix]

\* C14: for a Width built with any initial degree d0 and then subjected to any
\* sequence of add_prefix and add_suffix calls, after n calls
\* derivation_degree is d0 + n (every call raises it by exactly 1), and
\* full_form is the prefixes in insertion order, then the root, then the
\* suffixes in insertion order.
C14_WidthDegreeAndForm ==
    width # NoSpaceOp =>
       /\ width.w.derivation_degree =
             width.init.derivation_degree + Len(width.calls)
       /\ position(width.w) = width.init.derivation_degree + Len(width.calls)
       /\ width.w.root = width.init.root
       /\ full_form(width.w) =
             Concat(width.init.prefixes)
                \o Concat(AffixesGiven(width.calls, "add_prefix"))
                \o width.init.root
                \o Concat(width.init.suffixes)
                \o Concat(AffixesGiven(width.calls, "add_suffix"))

C14_Witness ==
    /\ width # NoSpaceOp
    /\ Len(width.calls) = 3
    /\ width.calls[1].op = "add_suffix"
    /\ width.calls[2].op = "add_prefix"
    /\ width.calls[3].op = "add_prefix"
    /\ width.calls[2].affix # width.calls[3].affix
    /\ width.calls[3].affix # <<>>
    /\ width.init.derivation_degree = 2
    /\ width.init.prefixes # <<>>
    /\ width.w.derivation_degree = 5

(***************************************************************************)
(* Claims about the queries of MorphemeSpace                               *)
(***************************************************************************)

\* The entries of a find_nearest result are in non-decreasing order of distance
NonDecreasing(res) ==
    \A j \in 1..(Len(res) - 1) : FLe(res[j][2], res[j + 1][2])

\* The number of positions of ms that hold the instance q
Occurrences(ms, q) == Cardinality({i \in 1..Len(ms) : ms[i] = q})

\* C15: for every space with n members, every Morpheme m and every k with
\* n >= k + 1, find_nearest(m, k) returns exactly k entries, in non-decreasing
\* order of distance to m, none of which is m itself.
C15_FindNearestExactlyK ==
    (query.op = "find_nearest" /\ Len(query.members) >= query.k + 1) =>
       /\ Len(query.result) = query.k
       /\ NonDecreasing(query.result)
       /\ \A j \in 1..Len(query.result) : query.result[j][1] # query.morpheme

\* C15 (amended): find_nearest(m, k), k >= 0, returns exactly min(k, n - j)
\* entries, where j is the number of positions of the member list that hold
\* the instance m; they are in non-decreasing order of distance to m and none
\* of them is m itself.
C15_FindNearestCount ==
    query.op = "find_nearest" =>
       LET others == Len(query.members) - Occurrences(query.members, query.morpheme)
       IN /\ Len(query.result) = IF query.k < others THEN query.k ELSE others
          /\ NonDecreasing(query.result)
          /\ \A j \in 1..Len(query.result) : query.result[j][1] # query.morpheme

C15_Witness ==
    /\ query.op = "find_nearest"
    /\ Len(query.members) >= query.k + 1
    /\ Occurrences(query.members, query.morpheme) = 2
    /\ Len(query.result) = 1
    /\ query.k = 2

\* C16: find_nearest(q, k) returns at most k entries; a member is left out only
\* when it is the very same instance as q (or is cut off by k), so a distinct
\* member with the same coordinates or an equal value is returned at distance
\* 0; entries are in ascending distance and members at equal distance appear
\* in their insertion order.
C16_FindNearestOrder ==
    query.op = "find_nearest" =>
       LET ms == query.members
           q == query.morpheme
           res == query.result
           cands == {i \in 1..Len(ms) : ms[i] # q}
           d(i) == distance_to(q.val, ms[i].val)
           Before(i1, i2) == FLt(d(i1), d(i2)) \/ (d(i1) = d(i2) /\ i1 < i2)
       IN /\ Len(res) <= query.k
          /\ \E idx \in [1..Len(res) -> cands] :
                /\ \A j \in 1..Len(res) : res[j] = <<ms[idx[j]], d(idx[j])>>
                /\ \A j \in 1..(Len(res) - 1) : Before(idx[j], idx[j + 1])
                /\ Len(res) < query.k => {idx[j] : j \in 1..Len(res)} = cands
                /\ \A c \in cands \ {idx[j] : j \in 1..Len(res)} :
                      \A j \in 1..Len(res) : Before(idx[j], c)

C16_Witness ==
    /\ query.op = "find_nearest"
    /\ \E i \in 1..Len(query.members) : query.members[i] = query.morpheme
    /\ Len(query.result) = 2
    /\ query.result[1][2] = FZero
    /\ query.result[2][2] = FZero
    /\ query.result[1][1].val.form # query.morpheme.val.form
    /\ query.result[2][1].val = query.morpheme.val
    /\ query.result[2][1].id # query.morpheme.id

\* C18: compute_density(center, radius) returns exactly 0 for every
\* radius <= 0, without raising; for radius > 0 it is the number of members
\* returned by get_morphemes_in_range(center, radius) divided by the volume of
\* the sphere, hence zero exactly when no member is in range.
C18_ComputeDensity ==
    query.op = "compute_density" =>
       /\ query.result.raised = ""
       /\ RadiusNotPositive(query.radius) => query.result.value = [kind |-> "0.0"]
       /\ ~RadiusNotPositive(query.radius) =>
             /\ query.result.value =
                   [kind |-> "count / volume",
                    count |-> Len(get_morphemes_in_range(query.members, query.center,
                                                         query.radius)),
                    radius |-> query.radius.mag]
             /\ DensityIsZero(query.result.value) <=>
                   get_morphemes_in_range(query.members, query.center,
                                          query.radius) = <<>>

RECURSIVE SumCounts(_, _)
SumCounts(f, S) ==
    IF S = {} THEN 0
    ELSE LET x == CHOOSE x \in S : TRUE IN f[x] + SumCounts(f, S \ {x})

\* <<lo, hi>> is the least and the greatest of the members' coordinate on axis a
IsAxisRange(r, ms, a) ==
    /\ \A i \in 1..Len(ms) : r[1] <= coordinates(ms[i].val)[a]
                          /\ coordinates(ms[i].val)[a] <= r[2]
    /\ \E i \in 1..Len(ms) : coordinates(ms[i].val)[a] = r[1]
    /\ \E i \in 1..Len(ms) : coordinates(ms[i].val)[a] = r[2]

\* C19: get_statistics() of an empty space is exactly the single entry
\* count = 0; of a non-empty space it gives count = number of members, for each
\* axis the pair (minimum, maximum) of the members' coordinate on that axis, a
\* language-to-count and a root-to-count mapping whose counts each sum to
\* count, and unique_roots = the number of distinct member roots.
C19_GetStatistics ==
    query.op = "get_statistics" =>
       LET ms == query.members
           st == query.result
       IN IF ms = <<>> THEN st = [count |-> 0]
          ELSE /\ DOMAIN st = {"count", "x_range", "y_range", "z_range",
                                "languages", "unique_roots", "roots"}
               /\ st.count = Len(ms)
               /\ IsAxisRange(st.x_range, ms, 1)
               /\ IsAxisRange(st.y_range, ms, 2)
               /\ IsAxisRange(st.z_range, ms, 3)
               /\ DOMAIN st.languages = {ms[i].val.language : i \in 1..Len(ms)}
               /\ \A l \in DOMAIN st.languages :
                     st.languages[l] =
                        Cardinality({i \in 1..Len(ms) : ms[i].val.language = l})
               /\ SumCounts(st.languages, DOMAIN st.languages) = st.count
               /\ DOMAIN st.roots = {ms[i].val.root : i \in 1..Len(ms)}
               /\ \A r \in DOMAIN st.roots :
                     st.roots[r] = Cardinality({i \in 1..Len(ms) : ms[i].val.root = r})
               /\ SumCounts(st.roots, DOMAIN st.roots) = st.count
               /\ st.unique_roots = Cardinality({ms[i].val.root : i \in 1..Len(ms)})

C19_Witness ==
    /\ query.op = "get_statistics"
    /\ Len(query.members) = 3
    /\ query.result.count = 3
    /\ query.result.unique_roots = 2
    /\ Cardinality(DOMAIN query.result.languages) = 2
    /\ query.result.x_range = <<0, 2>>
    /\ query.result.y_range = <<1, 4>>

\* C20: get_morphemes_in_range(center, radius) returns exactly the members
\* whose Euclidean distance to center is less than or equal to radius, a member
\* at distance exactly radius included, in insertion order.
C20_InRange ==
    query.op = "get_morphemes_in_range" =>
       LET InR(m) == /\ ~(query.radius.neg /\ query.radius.mag # FZero)
                     /\ FLe(center_distance(m.val, query.center), query.radius.mag)
       IN query.result = SelectSeq(query.members, InR)

C20_Witness ==
    /\ query.op = "get_morphemes_in_range"
    /\ ~query.radius.neg
    /\ query.radius.mag # FZero
    /\ Len(query.result) = 2
    /\ Len(query.members) = 3
    /\ \E j \in 1..2 :
          center_distance(query.result[j].val, query.center) = query.radius.mag
    /\ \E j \in 1..2 :
          FLt(center_distance(query.result[j].val, query.center), query.radius.mag)

\* C17: remove_morpheme(m) compares by value: when some member equals m it
\* removes exactly one member, the first one equal to m, keeps the order of
\* all other members, lowers the length by 1 and returns True; when no member
\* equals m it returns False and leaves the member list unchanged.
C17_RemoveMorpheme ==
    spaceLast.op = "remove" =>
       LET ms == spaceLast.before.morphemes
           eq == {i \in 1..Len(ms) : ms[i].val = spaceLast.arg.val}
       IN IF eq # {}
          THEN LET f == CHOOSE i \in eq : \A j \in eq : i <= j
               IN /\ spaceLast.result = TRUE
                  /\ len(space) = Len(ms) - 1
                  /\ space.morphemes =
                        [j \in 1..(Len(ms) - 1) |-> IF j < f THEN ms[j] ELSE ms[j + 1]]
          ELSE /\ spaceLast.result = FALSE
               /\ space.morphemes = ms

C17_Witness ==
    /\ spaceLast.op = "remove"
    /\ spaceLast.result = TRUE
    /\ Len(spaceLast.before.morphemes) = 3
    /\ \A i \in 1..3 : spaceLast.before.morphemes[i] # spaceLast.arg
    /\ spaceLast.before.morphemes[1].val # spaceLast.arg.val
    /\ spaceLast.before.morphemes[2].val = spaceLast.arg.val
    /\ spaceLast.before.morphemes[3].val = spaceLast.arg.val
    /\ space.morphemes = <<spaceLast.before.morphemes[1], spaceLast.before.morphemes[3]>>

\* C21: get_derivation_tree() partitions the members by Width derivation
\* degree: its keys are exactly the degrees that occur among the members,
\* every member position lies in exactly one group, and for every key d the
\* group is get_by_derivation_degree(d), the members of degree d in
\* insertion order.
C21_DerivationTree ==
    spaceLast.op = "get_derivation_tree" =>
       LET ms == space.morphemes
           tree == spaceLast.tree
           at(d) == {i \in 1..Len(ms) : ms[i].val.x = d}
       IN /\ space = spaceLast.before
          /\ DOMAIN tree = {ms[i].val.x : i \in 1..Len(ms)}
          /\ \A d \in DOMAIN tree :
                /\ tree[d] = get_by_derivation_degree(space, d)
                /\ Len(tree[d]) = Cardinality(at(d))
                /\ \A j \in 1..Len(tree[d]) :
                      \E i \in at(d) :
                         /\ tree[d][j] = ms[i]
                         /\ Cardinality({i2 \in at(d) : i2 < i}) = j - 1
          /\ \A d \in 0..2 :
                d \notin DOMAIN tree => get_by_derivation_degree(space, d) = <<>>

C21_Witness ==
    /\ spaceLast.op = "get_derivation_tree"
    /\ len(space) = 3
    /\ DOMAIN spaceLast.tree = {0, 1}
    /\ Len(spaceLast.tree[0]) = 2
    /\ spaceLast.tree[0][1] # spaceLast.tree[0][2]
    /\ space.morphemes[2].val.x = 1

(***************************************************************************)
(* Claims about the root-and-pattern analyzers                             *)
(***************************************************************************)
\* the letters of a root argument with one hyphen between neighbours
CanonicalRoot(root) == Join(RemoveChar(RemoveChar(root, " "), "-"))

\* C22: Arabic and Hebrew analyze_root normalize their argument: for any root
\* input the returned space's root and every member's root are the canonical
\* form (the letters, separators stripped, one hyphen between consecutive
\* letters), the data is looked up under it, and the result is the one the
\* canonical spelling of the same letters gives.
C22_AnalyzeRootNormalizes ==
    sem.op = "analyze_root" =>
       /\ ~sem.out.raised
       /\ sem.out.space.root = CanonicalRoot(sem.input)
       /\ \A i \in 1..len(sem.out.space) :
             sem.out.space.morphemes[i].val.root = CanonicalRoot(sem.input)
       /\ sem.out = Semitic_analyze_root(sem.lang, sem.data, CanonicalRoot(sem.input))

\* the examples the data holds under a key, in file order
ExamplesOf(data, key) ==
    LET at == {i \in 1..Len(data) : data[i].key = key}
    IN IF at = {} THEN <<>> ELSE data[CHOOSE i \in at : TRUE].examples

\* C23: analyze_root(root) returns, without raising, a RootSpace with one
\* member per example the data holds under the space's root, in file order
\* (none when the data has no such root); each member has the example's form,
\* derivation degree 0 when the form without its marks is the root's letters
\* and 1 otherwise, exactly one Depth layer, at level LITERAL, whose meaning
\* is the example's gloss, and as Height vowels the marks of the form in order.
C23_AnalyzeRootMembers ==
    sem.op = "analyze_root" =>
       /\ ~sem.out.raised
       /\ LET ms == sem.out.space.morphemes
              examples == ExamplesOf(sem.data, sem.out.space.root)
              letters == RemoveChar(RemoveChar(sem.input, " "), "-")
          IN /\ Len(ms) = Len(examples)
             /\ \A i \in 1..Len(ms) :
                   LET m == ms[i].val
                       form == examples[i][1]
                   IN /\ m.form = form
                      /\ m.gloss = examples[i][2]
                      /\ position(m.x) =
                            (IF strip_marks(sem.lang, form) = letters THEN 0 ELSE 1)
                      /\ Len(m.y.levels) = 1
                      /\ m.y.levels[1].level = SemanticLevel(LITERAL)
                      /\ m.y.levels[1].meaning = examples[i][2]
                      /\ m.z.vowels = extract_marks(sem.lang, form)

C23_Witness ==
    /\ sem.op = "analyze_root"
    /\ sem.input = <<"k", "t">>
    /\ len(sem.out.space) = 3
    /\ position(sem.out.space.morphemes[1].val.x) = 0
    /\ position(sem.out.space.morphemes[2].val.x) = 1
    /\ Len(sem.out.space.morphemes[1].val.z.vowels) = 2
    /\ sem.out.space.morphemes[3].val.z.vowels = <<>>

\* C24: vocalize(form) returns exactly the example forms of the data, over
\* all roots and in file order, whose form without marks equals the input
\* without marks; the result is empty when no example matches.
C24_Vocalize ==
    sem.op = "vocalize" =>
       LET forms == AllExampleForms(sem.data)
           hit == {i \in 1..Len(forms) :
                      strip_marks(sem.lang, forms[i]) = strip_marks(sem.lang, sem.input)}
       IN /\ Len(sem.out) = Cardinality(hit)
          /\ \A j \in 1..Len(sem.out) :
                \E i \in hit : /\ sem.out[j] = forms[i]
                               /\ Cardinality({i2 \in hit : i2 < i}) = j - 1

C24_Witness ==
    /\ sem.op = "vocalize"
    /\ sem.input # strip_marks(sem.lang, sem.input)
    /\ Len(sem.out) = 3
    /\ sem.out[1] # sem.out[3]

(***************************************************************************)
(* Claims about parse_morpheme                                             *)
(***************************************************************************)
\* C25: EnglishAnalyzer.parse_morpheme(form) applies the first matching rule
\* among: form ends in "ing" (root = form without its last 3 characters,
\* suffixes = [PROG]); form ends in "ed" (root = form without its last 2
\* characters, suffixes = [PAST]); form ends in "s" but not in "ss" (root =
\* form without its last character, suffixes = [PLURAL/3SG]); otherwise root =
\* form and no suffix.  The returned form is the input, and the Width root is
\* the root.
C25_EnglishParse ==
    (anLast.op = "parse_morpheme" /\ anLast.lang = "en") =>
       LET form == anLast.input
           n == Len(form)
           m == anLast.out
           tail(k) == IF k <= n THEN SubSeq(form, n - k + 1, n) ELSE <<"none">>
       IN /\ m.form = form
          /\ m.x.root = m.root
          /\ m.x.prefixes = <<>>
          /\ IF tail(3) = <<"i", "n", "g">>
             THEN m.root = SubSeq(form, 1, n - 3) /\ m.x.suffixes = <<"PROG">>
             ELSE IF tail(2) = <<"e", "d">>
             THEN m.root = SubSeq(form, 1, n - 2) /\ m.x.suffixes = <<"PAST">>
             ELSE IF tail(1) = <<"s">> /\ tail(2) # <<"s", "s">>
             THEN m.root = SubSeq(form, 1, n - 1) /\ m.x.suffixes = <<"PLURAL/3SG">>
             ELSE m.root = form /\ m.x.suffixes = <<>>

C25_Witness ==
    /\ anLast.op = "parse_morpheme"
    /\ anLast.lang = "en"
    /\ anLast.input = <<"b", "a", "k", "e", "d">>
    /\ anLast.out.root = <<"b", "a", "k">>
    /\ anLast.out.x.suffixes = <<"PAST">>

\* C29: for every Morpheme returned by parse_morpheme of a concatenative
\* analyzer (English, Portuguese, Russian, Sanskrit) the Width derivation
\* degree is the number of affixes recorded in the Width's prefix and suffix
\* lists, so a form from which an affix was stripped has X coordinate at
\* least 1.
C29_DegreeCountsAffixes ==
    anLast.op = "parse_morpheme" =>
       LET m == anLast.out
       IN /\ position(m.x) = Len(m.x.prefixes) + Len(m.x.suffixes)
          /\ coordinates(m)[1] = Len(m.x.prefixes) + Len(m.x.suffixes)
          /\ m.root # m.form => coordinates(m)[1] >= 1

\* C26: MandarinAnalyzer.parse_morpheme(form, pinyin) sets the Height
\* configuration id to the tone number (1 to 4) of the first character of
\* pinyin that is a tone-marked vowel of PINYIN_TONES, and to 5 when pinyin
\* has none; the id is always in 1..5; the Width has root = form, no affixes
\* and derivation degree 0.
C26_MandarinTone ==
    (wire.op = "parse_morpheme" /\ wire.lang = "zh") =>
       LET pinyin == wire.pinyin
           marked == {i \in 1..Len(pinyin) : pinyin[i] \in DOMAIN PINYIN_TONES}
           id == configuration(wire.m.z)
       IN /\ id \in 1..5
          /\ IF marked = {}
             THEN id = 5
             ELSE LET first == CHOOSE i \in marked : \A j \in marked : i <= j
                  IN id = PINYIN_TONES[pinyin[first]] /\ id \in 1..4
          /\ wire.m.x.root = wire.form
          /\ wire.m.x.prefixes = <<>> /\ wire.m.x.suffixes = <<>>
          /\ position(wire.m.x) = 0

C26_Witness ==
    /\ wire.op = "parse_morpheme"
    /\ wire.lang = "zh"
    /\ wire.pinyin = <<"h", "O_GRAVE", "A_CARON">>
    /\ configuration(wire.m.z) = 4

\* C27: every Morpheme returned by parse_morpheme of any analyzer (Arabic,
\* Hebrew, English, Portuguese, Russian, Sanskrit, Mandarin) is serialized by
\* to_dict without error, and from_dict restores from the result, without
\* error, a Morpheme with the same form, root, language and coordinates.
C27_ParsedMorphemeSerializes ==
    /\ wire.op = "to_dict" => ~wire.d.raised
    /\ wire.op = "from_dict" =>
          /\ ~wire.r.raised
          /\ wire.r.m.form = wire.m.form
          /\ wire.r.m.root = wire.m.root
          /\ wire.r.m.language = wire.m.language
          /\ coordinates(wire.r.m) = coordinates(wire.m)

(***************************************************************************)
(* Claims about shared objects in serialization and about metadata         *)
(***************************************************************************)
\* the Morpheme a restored Morpheme r was serialized from, 0 when r was not
\* made by from_dict
SerializedFrom(r) ==
    IF heap.origin[r].op = "from_dict" THEN heap.T[heap.origin[r].of].of ELSE 0

\* C28: serialization does not alias: after r = Morpheme.from_dict(m.to_dict())
\* a mutation of r (add_prefix or add_suffix on its Width, an append to its
\* Height vowels, a new metadata key) leaves m's Width prefixes and suffixes,
\* full_form, Height vowels and metadata as they were, and a mutation of the
\* dictionary that m.to_dict() returned leaves m as it was.
C28_SerializationDoesNotAlias ==
    /\ (/\ hLast.op \in {"add_prefix", "add_suffix", "append_vowel", "set_metadata"}
        /\ SerializedFrom(hLast.recv) \notin {0, hLast.recv}) =>
          LET m == SerializedFrom(hLast.recv)
              now == DerefM(heap, m)
              was == hLast.before[m]
          IN /\ now.x.prefixes = was.x.prefixes
             /\ now.x.suffixes = was.x.suffixes
             /\ full_form(now.x) = full_form(was.x)
             /\ now.z.vowels = was.z.vowels
             /\ now.metadata = was.metadata
    /\ hLast.op \in {"dict_prefixes_append", "dict_suffixes_append",
                     "dict_vowels_append", "dict_metadata_set",
                     "dict_coordinates_set", "dict_form_set"} =>
          DerefM(heap, heap.T[hLast.dict].of) = hLast.before[heap.T[hLast.dict].of]

\* C30: translate_along_x, translate_along_y and translate_along_z carry the
\* receiver's metadata over: the metadata of the Morpheme they return has the
\* same entries as the receiver's.
C30_TranslationsKeepMetadata ==
    hLast.op \in TranslateOps =>
       DerefM(heap, hLast.res).metadata = hLast.before[hLast.recv].metadata

====
